---- MODULE Spec2Model ----
(***************************************************************************)
(* A model of jax/experimental/treevec.py: the tree-vectorizing tracer.    *)
(* A TreeState is a triple (treedefs, leafshapes, leaves): one treedef and *)
(* one sequence of leaf shapes per logical axis, and a dict from           *)
(* coordinate tuples to leaf arrays.  The per-primitive rules are pure     *)
(* functions on TreeStates; each is modelled as an operator and applied by *)
(* an action of a specification whose Init draws the operands.             *)
(*                                                                         *)
(* Python tuples are modelled as sequences.  Sequences are indexed from 1, *)
(* but every VALUE that is an index in the source (a coordinate, an axis   *)
(* number, a physical dimension) keeps its 0-based value.                  *)
(***************************************************************************)
EXTENDS Integers, Sequences, FiniteSets, TLC

VARIABLES
  pc,        \* which step comes next
  tree,      \* the pytree given to the conversion boundary
  tracers,   \* the operands: a tuple of TreeStates
  params,    \* the primitive and its parameters
  out,       \* what the rule returned, or the exception it raised
  tracer,    \* the TreeTracer built from the rule's result
  restored,  \* the pytree rebuilt on exit
  lowered    \* what full_lower returned for the TreeTracer

vars == <<pc, tree, tracers, params, out, tracer, restored, lowered>>

(***************************************************************************)
(* Bounds of the model.                                                    *)
(***************************************************************************)
\* the most children of one container of a pytree given to convert
MaxKids == 2
\* the greatest length of a plain array axis of an operand
MaxSize == 3
\* the most rank-0 operands of one n-ary primitive
MaxScalars == 1

\* the most rank-0 operands mixed into one call of SpecMix
MaxMixScalars == 3

(***************************************************************************)
(* Tuples.                                                                 *)
(***************************************************************************)
\* t[i] of a Python tuple
item(t, i) == t[i + 1]

\* set(t)
ToSet(t) == {t[k] : k \in 1..Len(t)}

RECURSIVE SumSeq(_)
SumSeq(s) == IF s = <<>> THEN 0 ELSE Head(s) + SumSeq(Tail(s))

RECURSIVE prod(_)
prod(s) == IF s = <<>> THEN 1 ELSE Head(s) * prod(Tail(s))

RECURSIVE _concat_tuple(_)
_concat_tuple(tuples) ==
  IF tuples = <<>> THEN <<>> ELSE Head(tuples) \o _concat_tuple(Tail(tuples))

\* the elements of t whose 0-based position satisfies Keep, in order
RECURSIVE FilterFrom(_, _, _)
FilterFrom(t, k, keep) ==
  IF k > Len(t) THEN <<>>
  ELSE (IF (k - 1) \in keep THEN <<t[k]>> ELSE <<>>) \o FilterFrom(t, k + 1, keep)

\* tuple(x for i, x in enumerate(t) if i not in drop)
Without(t, drop) == FilterFrom(t, 1, (0..(Len(t) - 1)) \ drop)

\* row-major position of index tuple idx in an array of the given shape
RECURSIVE Ravel(_, _)
Ravel(shape, idx) ==
  IF shape = <<>> THEN 0
  ELSE Head(idx) * prod(Tail(shape)) + Ravel(Tail(shape), Tail(idx))

\* the index tuple at row-major position n
RECURSIVE Unravel(_, _)
Unravel(shape, n) ==
  IF shape = <<>> THEN <<>>
  ELSE <<n \div prod(Tail(shape))>> \o Unravel(Tail(shape), n % prod(Tail(shape)))

\* itertools.product(*[range(n) for n in ns]), in row-major order
product(ns) == [k \in 1..prod(ns) |-> Unravel(ns, k - 1)]

(***************************************************************************)
(* Arrays: a shape, an element type and one element per index tuple.       *)
(***************************************************************************)
Indices(shape) == ToSet(product(shape))

Array(shape, dtype, at) == [shape |-> shape, dtype |-> dtype, at |-> at]

\* the array of the given shape holding start, start+1, ... in row-major order
Iota(shape, dtype, start) ==
  Array(shape, dtype, [idx \in Indices(shape) |-> start + Ravel(shape, idx)])

Scalar(v, dtype) == Array(<<>>, dtype, [idx \in {<<>>} |-> v])

\* np.shape / np.ndim
np_shape(x) == x.shape
np_ndim(x) == Len(x.shape)

\* the elements of x in row-major order
Elements(x) == [k \in 1..prod(x.shape) |-> x.at[Unravel(x.shape, k - 1)]]

\* NumPy type promotion over the two element types of the model
promote(d1, d2) == IF d1 = "float" \/ d2 = "float" THEN "float" ELSE "int"

RECURSIVE result_type(_)
result_type(xs) ==
  IF Len(xs) = 1 THEN xs[1].dtype
  ELSE promote(xs[1].dtype, result_type(Tail(xs)))

\* jnp.asarray(x, dtype): the same elements, converted to dtype
asarray(x, dtype) == [x EXCEPT !.dtype = dtype]

(***************************************************************************)
(* Pytrees and treedefs (jax.tree_util).  A pytree is a leaf holding an    *)
(* array, a dict (keys in insertion order) or a list.  Flattening visits a *)
(* dict's children in sorted key order.  A treedef is the container shape: *)
(* `def`, compared by ==, together with `obj`, the identity of the Python  *)
(* object: 0 is the module constant TRIVIAL_TREEDEF, 1 any other object    *)
(* (every call of tree_flatten / tree_structure returns a new object).     *)
(***************************************************************************)
KeyOrder == <<"a", "b", "c", "d", "x", "y", "z">>

SortKeys(keys) == SelectSeq(KeyOrder, LAMBDA k : k \in ToSet(keys))

Leaf(x) == [node |-> "leaf", keys |-> <<>>, kids |-> <<>>, val |-> x]

NoArray == Scalar(0, "int")

Dict(keys, kids) == [node |-> "dict", keys |-> keys, kids |-> kids, val |-> NoArray]

List(kids) == [node |-> "list", keys |-> <<>>, kids |-> kids, val |-> NoArray]

LeafDef == [node |-> "leaf", keys |-> <<>>, kids |-> <<>>]

\* the child of dict t stored under key k
Child(t, k) == t.kids[CHOOSE i \in 1..Len(t.keys) : t.keys[i] = k]

\* the children of a container in flattening order
KidsInOrder(t) ==
  IF t.node = "dict"
  THEN LET ks == SortKeys(t.keys) IN [i \in 1..Len(ks) |-> Child(t, ks[i])]
  ELSE t.kids

RECURSIVE flatten_leaves(_)
flatten_leaves(t) ==
  IF t.node = "leaf" THEN <<t.val>>
  ELSE LET kids == KidsInOrder(t)
       IN _concat_tuple([i \in 1..Len(kids) |-> flatten_leaves(kids[i])])

RECURSIVE flatten_def(_)
flatten_def(t) ==
  IF t.node = "leaf" THEN LeafDef
  ELSE LET kids == KidsInOrder(t)
       IN [node |-> t.node,
           keys |-> IF t.node = "dict" THEN SortKeys(t.keys) ELSE <<>>,
           kids |-> [i \in 1..Len(kids) |-> flatten_def(kids[i])]]

RECURSIVE def_leaves(_)
def_leaves(d) ==
  IF d.node = "leaf" THEN 1
  ELSE SumSeq([i \in 1..Len(d.kids) |-> def_leaves(d.kids[i])])

\* treedef.num_leaves
num_leaves(treedef) == def_leaves(treedef.def)

\* tree_flatten(tree) -> (leaves, treedef)
tree_flatten(t) == <<flatten_leaves(t), [def |-> flatten_def(t), obj |-> 1]>>

\* tree_structure(tree)
tree_structure(t) == tree_flatten(t)[2]

\* the leaves a list of kids takes from xs, kid k starting after its elders
RECURSIVE KidOffset(_, _)
KidOffset(kids, k) ==
  IF k = 1 THEN 0 ELSE KidOffset(kids, k - 1) + def_leaves(kids[k - 1])

RECURSIVE unflatten_def(_, _)
unflatten_def(d, xs) ==
  IF d.node = "leaf" THEN xs[1]
  ELSE LET kids == [k \in 1..Len(d.kids) |->
                      unflatten_def(d.kids[k],
                        SubSeq(xs, KidOffset(d.kids, k) + 1,
                               KidOffset(d.kids, k) + def_leaves(d.kids[k])))]
       IN [node |-> d.node, keys |-> d.keys, kids |-> kids, val |-> NoArray]

\* tree_unflatten(treedef, leaves); the leaves may themselves be pytrees
tree_unflatten(treedef, xs) == unflatten_def(treedef.def, xs)

\* TRIVIAL_TREEDEF = tree_structure(1), the one object of the module
TRIVIAL_TREEDEF == [def |-> LeafDef, obj |-> 0]

\* treedef == other (PyTreeDef.__eq__) and `treedef is other`
TreedefEq(t1, t2) == t1.def = t2.def
TreedefIs(t1, t2) == t1 = t2

(***************************************************************************)
(* Axis structure and coordinates.                                         *)
(***************************************************************************)
\* an axis test that compares the treedef with == instead of `is`
is_trivial_axis_by_equality(treedef, leafshapes) ==
  /\ TreedefEq(treedef, TRIVIAL_TREEDEF)
  /\ Len(leafshapes) = 1
  /\ Len(leafshapes[1]) = 1

\* treedef is TRIVIAL_TREEDEF and the axis has one leaf of rank 1
is_trivial_axis(treedef, leafshapes) ==
  /\ TreedefIs(treedef, TRIVIAL_TREEDEF)
  /\ Len(leafshapes) = 1
  /\ Len(leafshapes[1]) = 1

_iter_leaf_coords(treedefs) ==
  product([k \in 1..Len(treedefs) |-> num_leaves(treedefs[k])])

_iter_leaf_coords2(leafshapes) ==
  product([k \in 1..Len(leafshapes) |-> Len(leafshapes[k])])

_axis_length(shapes) == SumSeq([k \in 1..Len(shapes) |-> prod(shapes[k])])

_leafshape(leafshapes, coords) ==
  _concat_tuple([i \in 1..Len(coords) |-> item(leafshapes[i], coords[i])])

TreeState(treedefs, leafshapes, leaves) ==
  [treedefs |-> treedefs, leafshapes |-> leafshapes, leaves |-> leaves]

(***************************************************************************)
(* The conversion boundary.                                                *)
(***************************************************************************)
\* a convert that keys the leaves in reversed order
convert_vectorized_tree_reversed(t) ==
  LET xs == tree_flatten(t)[1]
      treedef == tree_flatten(t)[2]
      leafshape == [i \in 1..Len(xs) |-> np_shape(xs[i])]
      dtype == result_type(xs)
      leaves == [c \in {<<i>> : i \in 0..(Len(xs) - 1)} |->
                   asarray(item(xs, Len(xs) - 1 - c[1]), dtype)]
  IN TreeState(<<treedef>>, <<leafshape>>, leaves)

convert_vectorized_tree(t) ==
  LET xs == tree_flatten(t)[1]
      treedef == tree_flatten(t)[2]
      leafshape == [i \in 1..Len(xs) |-> np_shape(xs[i])]
      dtype == result_type(xs)
      leaves == [c \in {<<i>> : i \in 0..(Len(xs) - 1)} |->
                   asarray(item(xs, c[1]), dtype)]
  IN TreeState(<<treedef>>, <<leafshape>>, leaves)

convert_leaf_array(leaf) ==
  LET ndim == np_ndim(leaf)
      treedefs == [k \in 1..ndim |-> TRIVIAL_TREEDEF]
      leafshapes == [k \in 1..ndim |-> << <<np_shape(leaf)[k]>> >>]
      leaves == [c \in {[k \in 1..ndim |-> 0]} |-> leaf]
  IN TreeState(treedefs, leafshapes, leaves)

\* a restore that peels the first axis first, so that axis 0 ends up innermost
RECURSIVE restore_loop_first_axis_inside(_, _)
restore_loop_first_axis_inside(treedefs, leaves) ==
  IF treedefs = <<>> THEN leaves[<<>>]
  ELSE LET first == treedefs[1]
           rest == Tail(treedefs)
           flattened_leaves ==
             [coords \in ToSet(_iter_leaf_coords(rest)) |->
                tree_unflatten(first,
                  [i \in 1..num_leaves(first) |-> leaves[<<i - 1>> \o coords]])]
       IN restore_loop_first_axis_inside(rest, flattened_leaves)

\* the body of restore_tree's while loop, on leaves that are pytrees
RECURSIVE restore_loop(_, _)
restore_loop(treedefs, leaves) ==
  IF treedefs = <<>> THEN leaves[<<>>]
  ELSE LET last == treedefs[Len(treedefs)]
           front == SubSeq(treedefs, 1, Len(treedefs) - 1)
           flattened_leaves ==
             [coords \in ToSet(_iter_leaf_coords(front)) |->
                tree_unflatten(last,
                  [i \in 1..num_leaves(last) |-> leaves[coords \o <<i - 1>>]])]
       IN restore_loop(front, flattened_leaves)

restore_tree(treedefs, leaves) ==
  restore_loop(treedefs, [c \in DOMAIN leaves |-> Leaf(leaves[c])])

(***************************************************************************)
(* Array kernels: what the rules ask of numpy and lax.  Each kernel comes  *)
(* with the condition under which it raises instead of returning.          *)
(***************************************************************************)
\* how many of the positions 1..k of an index are not in dims (0-based)
KeptBefore(k, dims) == Cardinality({j \in 1..k : (j - 1) \notin dims})

\* x.reshape(shape), for a shape of the same size
reshape(x, shape) ==
  Array(shape, x.dtype,
        [idx \in Indices(shape) |-> x.at[Unravel(x.shape, Ravel(shape, idx))]])

\* lax.squeeze(x, dimensions) raises unless every named dimension has size 1
squeeze_ok(x, dims) ==
  \A d \in ToSet(dims) : d < np_ndim(x) /\ item(x.shape, d) = 1

squeeze(x, dims) ==
  LET D == ToSet(dims)
      shape == Without(x.shape, D)
  IN Array(shape, x.dtype,
           [idx \in Indices(shape) |->
              x.at[[k \in 1..np_ndim(x) |->
                      IF (k - 1) \in D THEN 0 ELSE idx[KeptBefore(k, D)]]]])

\* lax.expand_dims(x, dimensions): the named positions of the RESULT have size 1
expand_dims_ok(x, dims) ==
  \A d \in ToSet(dims) : d < np_ndim(x) + Len(dims)

expand_dims(x, dims) ==
  LET D == ToSet(dims)
      shape == [k \in 1..(np_ndim(x) + Len(dims)) |->
                  IF (k - 1) \in D THEN 1 ELSE x.shape[KeptBefore(k, D)]]
  IN Array(shape, x.dtype, [idx \in Indices(shape) |-> x.at[Without(idx, D)]])

\* NumPy broadcasting of shapes, aligned at the last dimension
MaxRank(shapes) ==
  CHOOSE r \in {Len(shapes[i]) : i \in 1..Len(shapes)} :
    \A i \in 1..Len(shapes) : Len(shapes[i]) <= r

\* the sizes the shapes give to dimension k (1-based) of the broadcast
DimSizes(shapes, k) ==
  LET R == MaxRank(shapes)
  IN {shapes[i][k - (R - Len(shapes[i]))] :
        i \in {j \in 1..Len(shapes) : k > R - Len(shapes[j])}}

broadcast_ok(shapes) ==
  \A k \in 1..MaxRank(shapes) : Cardinality(DimSizes(shapes, k) \ {1}) <= 1

broadcast_shape(shapes) ==
  [k \in 1..MaxRank(shapes) |->
     IF DimSizes(shapes, k) \ {1} = {} THEN 1
     ELSE CHOOSE n \in DimSizes(shapes, k) \ {1} : TRUE]

\* the index of x's element that lands at idx of a broadcast of rank Len(idx)
broadcast_index(x, idx) ==
  [j \in 1..np_ndim(x) |->
     IF x.shape[j] = 1 THEN 0 ELSE idx[j + (Len(idx) - np_ndim(x))]]

RECURSIVE MaxOf(_)
MaxOf(vals) ==
  IF Len(vals) = 1 THEN vals[1]
  ELSE LET m == MaxOf(Tail(vals)) IN IF vals[1] >= m THEN vals[1] ELSE m

\* the scalar function of an elementwise primitive
apply_prim(prim, vals) ==
  CASE prim = "add" -> SumSeq(vals)
    [] prim = "sub" -> vals[1] - SumSeq(Tail(vals))
    [] prim = "max" -> MaxOf(vals)
    [] prim = "neg" -> 0 - vals[1]
    [] OTHER -> vals[1]

Shapes(args) == [i \in 1..Len(args) |-> args[i].shape]

\* prim.bind(*args) of an elementwise primitive raises on incompatible shapes
bind_ok(args) == broadcast_ok(Shapes(args))

bind(prim, args) ==
  LET shape == broadcast_shape(Shapes(args))
  IN Array(shape, result_type(args),
           [idx \in Indices(shape) |->
              apply_prim(prim, [i \in 1..Len(args) |->
                                  args[i].at[broadcast_index(args[i], idx)]])])

\* lax.concatenate(operands, dimension) raises unless the operands have one
\* rank, above dimension, and agree on every other dimension
concatenate_ok(operands, dimension) ==
  /\ operands # <<>>
  /\ \A i \in 1..Len(operands) :
       /\ np_ndim(operands[i]) = np_ndim(operands[1])
       /\ dimension < np_ndim(operands[i])
       /\ \A k \in 1..np_ndim(operands[1]) :
            k # dimension + 1 => operands[i].shape[k] = operands[1].shape[k]

\* where operand i (1-based) starts along the concatenated dimension
ConcatStart(operands, dimension, i) ==
  SumSeq([j \in 1..(i - 1) |-> item(operands[j].shape, dimension)])

concatenate(operands, dimension) ==
  LET d == dimension + 1
      shape == [operands[1].shape EXCEPT
                  ![d] = ConcatStart(operands, dimension, Len(operands) + 1)]
  IN Array(shape, result_type(operands),
           [idx \in Indices(shape) |->
              LET i == CHOOSE j \in 1..Len(operands) :
                         /\ ConcatStart(operands, dimension, j) <= idx[d]
                         /\ idx[d] < ConcatStart(operands, dimension, j + 1)
              IN operands[i].at[[idx EXCEPT
                                   ![d] = @ - ConcatStart(operands, dimension, i)]]])

\* the elements of x that a reduction over the dimensions D folds into the
\* element at idx of the result, in row-major order
ReducedInto(x, D, idx) ==
  LET fulls == SelectSeq(product(x.shape), LAMBDA full : Without(full, D) = idx)
  IN [k \in 1..Len(fulls) |-> x.at[fulls[k]]]

\* the binary primitive a reduction primitive was registered with (defreducer)
binop_of(prim) == IF prim = "reduce_sum" THEN "add" ELSE "max"

\* prim.bind(x, axes=axes) of a reduction primitive raises on an axis that x
\* does not have
reduce_ok(x, axes) == \A a \in ToSet(axes) : a < np_ndim(x)

reduce_bind(prim, x, axes) ==
  LET shape == Without(x.shape, ToSet(axes))
  IN Array(shape, x.dtype,
           [idx \in Indices(shape) |->
              apply_prim(binop_of(prim), ReducedInto(x, ToSet(axes), idx))])

\* the 1-based position of x in the tuple t
PositionOf(t, x) == CHOOSE i \in 1..Len(t) : t[i] = x

\* range(n) without the members of used, ascending
Remaining(n, used) == Without([a \in 1..n |-> a - 1], used)

\* lax.broadcast_in_dim(x, shape, broadcast_dimensions) raises unless every
\* dimension of x is named once, in increasing order, and has size 1 or the
\* size of the result dimension it is sent to
lax_broadcast_in_dim_ok(x, shape, bdims) ==
  /\ Len(bdims) = np_ndim(x)
  /\ \A i \in 1..Len(bdims) :
       /\ bdims[i] < Len(shape)
       /\ x.shape[i] \in {1, item(shape, bdims[i])}
       /\ \A j \in 1..(i - 1) : bdims[j] < bdims[i]

lax_broadcast_in_dim(x, shape, bdims) ==
  Array(shape, x.dtype,
        [idx \in Indices(shape) |->
           x.at[[i \in 1..np_ndim(x) |->
                   IF x.shape[i] = 1 THEN 0 ELSE item(idx, bdims[i])]]])

\* lax.transpose(x, permutation) raises unless permutation orders range(ndim)
lax_transpose_ok(x, permutation) ==
  /\ Len(permutation) = np_ndim(x)
  /\ ToSet(permutation) = 0..(np_ndim(x) - 1)

lax_transpose(x, permutation) ==
  LET shape == [k \in 1..Len(permutation) |-> item(x.shape, permutation[k])]
  IN Array(shape, x.dtype,
           [idx \in Indices(shape) |->
              x.at[[j \in 1..np_ndim(x) |-> idx[PositionOf(permutation, j - 1)]]]])

\* lax.dot_general(lhs, rhs, ((lc, rc), (lb, rb))) raises unless the paired
\* dimensions exist, are distinct and have equal sizes
dot_general_ok(lhs, rhs, lc, rc, lb, rb) ==
  /\ Len(lc) = Len(rc)
  /\ Len(lb) = Len(rb)
  /\ \A d \in ToSet(lc) \cup ToSet(lb) : d < np_ndim(lhs)
  /\ \A d \in ToSet(rc) \cup ToSet(rb) : d < np_ndim(rhs)
  /\ Cardinality(ToSet(lc) \cup ToSet(lb)) = Len(lc) + Len(lb)
  /\ Cardinality(ToSet(rc) \cup ToSet(rb)) = Len(rc) + Len(rb)
  /\ \A i \in 1..Len(lc) : item(lhs.shape, lc[i]) = item(rhs.shape, rc[i])
  /\ \A i \in 1..Len(lb) : item(lhs.shape, lb[i]) = item(rhs.shape, rb[i])

\* the result has the batch dimensions, then the free dimensions of lhs, then
\* those of rhs; each element sums the products over the contracted indices
dot_general(lhs, rhs, lc, rc, lb, rb) ==
  LET lfree == Remaining(np_ndim(lhs), ToSet(lc) \cup ToSet(lb))
      rfree == Remaining(np_ndim(rhs), ToSet(rc) \cup ToSet(rb))
      nb == Len(lb)
      shape == [i \in 1..nb |-> item(lhs.shape, lb[i])]
                 \o [j \in 1..Len(lfree) |-> item(lhs.shape, lfree[j])]
                 \o [j \in 1..Len(rfree) |-> item(rhs.shape, rfree[j])]
      ks == product([m \in 1..Len(lc) |-> item(lhs.shape, lc[m])])
      lidx(idx, k) ==
        [d \in 1..np_ndim(lhs) |->
           IF (d - 1) \in ToSet(lb) THEN idx[PositionOf(lb, d - 1)]
           ELSE IF (d - 1) \in ToSet(lc) THEN k[PositionOf(lc, d - 1)]
           ELSE idx[nb + PositionOf(lfree, d - 1)]]
      ridx(idx, k) ==
        [d \in 1..np_ndim(rhs) |->
           IF (d - 1) \in ToSet(rb) THEN idx[PositionOf(rb, d - 1)]
           ELSE IF (d - 1) \in ToSet(rc) THEN k[PositionOf(rc, d - 1)]
           ELSE idx[nb + Len(lfree) + PositionOf(rfree, d - 1)]]
  IN Array(shape, promote(lhs.dtype, rhs.dtype),
           [idx \in Indices(shape) |->
              SumSeq([n \in 1..Len(ks) |->
                        lhs.at[lidx(idx, ks[n])] * rhs.at[ridx(idx, ks[n])]])])

(***************************************************************************)
(* Results of rules.  A rule returns (treedefs, leafshapes, leaves) or     *)
(* raises; `calls` records the arguments of each kernel invocation.        *)
(***************************************************************************)
\* no rule has run yet, no pytree is involved, no primitive is bound
NoOut == [err |-> "unset"]
NoTree == Leaf(NoArray)
NoParams == [prim |-> "none"]

RuleOk(treedefs, leafshapes, leaves, calls) ==
  [err |-> "none", treedefs |-> treedefs, leafshapes |-> leafshapes,
   leaves |-> leaves, calls |-> calls]

RuleErr(e) ==
  [err |-> e, treedefs |-> <<>>, leafshapes |-> <<>>, leaves |-> <<>>, calls |-> <<>>]

\* the first exception raised by a sequence of steps, "none" if none raises
RECURSIVE FirstErr(_)
FirstErr(errs) ==
  IF errs = <<>> THEN "none"
  ELSE IF Head(errs) # "none" THEN Head(errs) ELSE FirstErr(Tail(errs))

(***************************************************************************)
(* TreeTracer.__init__: the invariants asserted of a (treedefs,            *)
(* leafshapes, leaves) triple; and TreeTrace.process_primitive, which      *)
(* wraps a rule's result in a new TreeTracer.                              *)
(***************************************************************************)
TreeTracer_err(treedefs, leafshapes, leaves) ==
  LET cs == _iter_leaf_coords(treedefs)
  IN IF Len(treedefs) # Len(leafshapes) THEN "AssertionError"
     ELSE IF \E k \in 1..Len(treedefs) : num_leaves(treedefs[k]) # Len(leafshapes[k])
     THEN "AssertionError"
     ELSE IF DOMAIN leaves = {} THEN "AssertionError"
     ELSE FirstErr([k \in 1..Len(cs) |->
            IF cs[k] \notin DOMAIN leaves THEN "KeyError"
            ELSE IF np_shape(leaves[cs[k]]) # _leafshape(leafshapes, cs[k])
            THEN "AssertionError"
            ELSE "none"])

TreeTracer(treedefs, leafshapes, leaves) ==
  [err |-> TreeTracer_err(treedefs, leafshapes, leaves),
   treedefs |-> treedefs, leafshapes |-> leafshapes, leaves |-> leaves]

\* TreeTracer(self, *result), when the rule returned
wrap_result(result) ==
  IF result.err # "none" THEN NoOut
  ELSE TreeTracer(result.treedefs, result.leafshapes, result.leaves)

\* TreeTracer.full_lower: the single leaf when every axis is trivial (the
\* unpacking `value, = ...` raises unless there is exactly one leaf), else
\* the tracer itself.  core.full_lower of an array returns the array.
full_lower(self) ==
  IF \A k \in 1..Len(self.treedefs) :
       is_trivial_axis(self.treedefs[k], self.leafshapes[k])
  THEN IF Cardinality(DOMAIN self.leaves) = 1
       THEN [err |-> "none", kind |-> "array",
             value |-> self.leaves[CHOOSE c \in DOMAIN self.leaves : TRUE]]
       ELSE [err |-> "ValueError", kind |-> "none", value |-> NoArray]
  ELSE [err |-> "none", kind |-> "tracer", value |-> self]

(***************************************************************************)
(* Unary elementwise rule.                                                 *)
(***************************************************************************)
\* a rule that hands the kernel the first block whatever the coordinate
vectorized_tree_rule_first_block(prim, treedefs_in, leafshapes_in, leaves_in) ==
  LET treedefs == treedefs_in[1]
      leafshapes == leafshapes_in[1]
      leaves == leaves_in[1]
      coords == ToSet(_iter_leaf_coords(treedefs))
      first == [k \in 1..Len(treedefs) |-> 0]
  IN RuleOk(treedefs, leafshapes,
            [c \in coords |-> bind(prim, <<leaves[first]>>)],
            [c \in coords |-> <<leaves[first]>>])

vectorized_tree_rule(prim, treedefs_in, leafshapes_in, leaves_in) ==
  LET treedefs == treedefs_in[1]
      leafshapes == leafshapes_in[1]
      leaves == leaves_in[1]
      coords == ToSet(_iter_leaf_coords(treedefs))
  IN IF \E c \in coords : c \notin DOMAIN leaves THEN RuleErr("KeyError")
     ELSE RuleOk(treedefs, leafshapes,
                 [c \in coords |-> bind(prim, <<leaves[c]>>)],
                 [c \in coords |-> <<leaves[c]>>])

(***************************************************************************)
(* Helpers of the n-ary rules.                                             *)
(***************************************************************************)
\* the 1-based positions of the operands that are not rank 0
NonScalars(treedefs_in) ==
  SelectSeq([i \in 1..Len(treedefs_in) |-> i], LAMBDA i : treedefs_in[i] # <<>>)

_filter_scalar_leaves(treedefs_in, leafshapes_in, leaves_in) ==
  LET keep == NonScalars(treedefs_in)
      drop == SelectSeq([i \in 1..Len(treedefs_in) |-> i],
                        LAMBDA i : treedefs_in[i] = <<>>)
  IN [treedefs_out |-> [k \in 1..Len(keep) |-> treedefs_in[keep[k]]],
      leafshapes_out |-> [k \in 1..Len(keep) |-> leafshapes_in[keep[k]]],
      leaves_out |-> [k \in 1..Len(keep) |-> leaves_in[keep[k]]],
      scalars |-> [k \in 1..Len(drop) |-> <<drop[k] - 1, leaves_in[drop[k]][<<>>]>>]]

\* list.insert(i, x)
insert(list, i, x) ==
  IF i >= Len(list) THEN Append(list, x)
  ELSE SubSeq(list, 1, i) \o <<x>> \o SubSeq(list, i + 1, Len(list))

\* a reinsertion that appends every scalar after the other arguments
RECURSIVE insert_scalars_appended(_, _)
insert_scalars_appended(args, scalars) ==
  IF scalars = <<>> THEN args
  ELSE insert_scalars_appended(Append(args, scalars[1][2]), Tail(scalars))

\* a reinsertion that takes the scalars from the last to the first
RECURSIVE insert_scalars_reversed(_, _)
insert_scalars_reversed(args, scalars) ==
  IF scalars = <<>> THEN args
  ELSE LET last == scalars[Len(scalars)]
       IN insert_scalars_reversed(insert(args, last[1], last[2]),
                                  SubSeq(scalars, 1, Len(scalars) - 1))

\* for i, scalar in scalars: args.insert(i, scalar)
RECURSIVE insert_scalars(_, _)
insert_scalars(args, scalars) ==
  IF scalars = <<>> THEN args
  ELSE insert_scalars(insert(args, scalars[1][1], scalars[1][2]), Tail(scalars))

_split_leaf_err(array, axis, shapes) ==
  IF axis >= np_ndim(array) THEN "IndexError"
  ELSE IF _axis_length(shapes) # item(array.shape, axis) THEN "ShapeMismatch"
  ELSE "none"

\* split points that count one element per segment instead of prod(shape)
SplitStart_by_count(shapes, i) == i - 1

\* where piece i (1-based) starts: np.cumsum of the sizes before it
SplitStart(shapes, i) == SumSeq([j \in 1..(i - 1) |-> prod(shapes[j])])

\* jnp.split(array, indices, axis)[i - 1]
split_piece(array, axis, shapes, i) ==
  LET shape == [array.shape EXCEPT ![axis + 1] = prod(shapes[i])]
  IN Array(shape, array.dtype,
           [idx \in Indices(shape) |->
              array.at[[idx EXCEPT ![axis + 1] = @ + SplitStart(shapes, i)]]])

_split_leaf(array, axis, shapes) ==
  [i \in 1..Len(shapes) |->
     reshape(split_piece(array, axis, shapes, i),
             SubSeq(array.shape, 1, axis) \o shapes[i]
               \o SubSeq(array.shape, axis + 2, Len(array.shape)))]

RECURSIVE AxesFrom(_, _, _, _, _)
AxesFrom(leafshapes, coords, axes, k, leaf_axis) ==
  IF k > Len(coords) THEN <<>>
  ELSE LET leaf_ndim == Len(item(leafshapes[k], coords[k]))
       IN (IF (k - 1) \in ToSet(axes)
           THEN [j \in 1..leaf_ndim |-> leaf_axis + j - 1] ELSE <<>>)
          \o AxesFrom(leafshapes, coords, axes, k + 1, leaf_axis + leaf_ndim)

\* the logical axes taken for the physical dimensions of the leaf
_axes_for_leaf_logical(leafshapes, coords, axes) == axes

\* the physical dimensions of the leaf at coords that the logical axes cover
_axes_for_leaf(leafshapes, coords, axes) == AxesFrom(leafshapes, coords, axes, 1, 0)

\* the exception of _split_leaves, "none" if it returns
_split_leaves_err(leafshapes, leaves, axis, shapes) ==
  IF Len(leafshapes[axis + 1]) # 1 \/ Len(leafshapes[axis + 1][1]) # 1
  THEN "InvalidLeafshapes"
  ELSE LET cs == _iter_leaf_coords2(leafshapes)
       IN FirstErr([k \in 1..Len(cs) |->
            IF cs[k] \notin DOMAIN leaves THEN "KeyError"
            ELSE _split_leaf_err(leaves[cs[k]],
                                 _axes_for_leaf(leafshapes, cs[k], <<axis>>)[1],
                                 shapes)])

_split_leaves(leafshapes, leaves, axis, shapes) ==
  LET cs == ToSet(_iter_leaf_coords2(leafshapes))
      keys == {[c EXCEPT ![axis + 1] = i] : c \in cs, i \in 0..(Len(shapes) - 1)}
  IN [out_coords \in keys |->
        LET in_coords == [out_coords EXCEPT ![axis + 1] = 0]
            leaf_axis == _axes_for_leaf(leafshapes, in_coords, <<axis>>)[1]
        IN _split_leaf(leaves[in_coords], leaf_axis, shapes)[out_coords[axis + 1] + 1]]


(***************************************************************************)
(* N-ary elementwise rule with broadcasting.                               *)
(***************************************************************************)
\* {treedefs[axis] for treedefs in treedefs_in if treedefs[axis] != TRIVIAL_TREEDEF}
non_trivial_treedefs(treedefs_in, axis) ==
  {treedefs_in[i][axis + 1].def :
     i \in {j \in 1..Len(treedefs_in) :
              ~TreedefEq(treedefs_in[j][axis + 1], TRIVIAL_TREEDEF)}}

\* {leafshapes[axis] for leafshapes in leafshapes_in if len(leafshapes[axis]) != 1}
non_trivial_shapes(leafshapes_in, axis) ==
  {leafshapes_in[i][axis + 1] :
     i \in {j \in 1..Len(leafshapes_in) : Len(leafshapes_in[j][axis + 1]) # 1}}

\* checks that tolerate two distinct treedefs or shapes on an axis
naryop_axis_err_lenient(treedefs_in, leafshapes_in, axis) ==
  IF Cardinality(non_trivial_treedefs(treedefs_in, axis)) > 2
  THEN "ConflictingStructure"
  ELSE IF Cardinality(non_trivial_shapes(leafshapes_in, axis)) > 2
  THEN "ConflictingShape"
  ELSE "none"

\* the exception the checks of one axis raise, "none" if they pass
naryop_axis_err(treedefs_in, leafshapes_in, axis) ==
  IF Cardinality(non_trivial_treedefs(treedefs_in, axis)) > 1
  THEN "ConflictingStructure"
  ELSE IF Cardinality(non_trivial_shapes(leafshapes_in, axis)) > 1
  THEN "ConflictingShape"
  ELSE "none"

naryop_out_treedef(treedefs_in, axis) ==
  IF Cardinality(non_trivial_treedefs(treedefs_in, axis)) = 1
  THEN [def |-> CHOOSE d \in non_trivial_treedefs(treedefs_in, axis) : TRUE, obj |-> 1]
  ELSE TRIVIAL_TREEDEF

MaxLength(leafshapes_in, axis) ==
  CHOOSE n \in {_axis_length(leafshapes_in[i][axis + 1]) : i \in 1..Len(leafshapes_in)} :
    \A i \in 1..Len(leafshapes_in) : _axis_length(leafshapes_in[i][axis + 1]) <= n

naryop_out_leafshape(leafshapes_in, axis) ==
  IF Cardinality(non_trivial_shapes(leafshapes_in, axis)) = 1
  THEN CHOOSE shapes \in non_trivial_shapes(leafshapes_in, axis) : TRUE
  ELSE << <<MaxLength(leafshapes_in, axis)>> >>

\* a split condition that takes the axes of length 1
needs_split_length_one(shapes, out_shapes) ==
  shapes # out_shapes /\ _axis_length(shapes) = 1

\* a split condition that only splits towards a layout of several segments
needs_split_multi_segment(shapes, out_shapes) ==
  shapes # out_shapes /\ _axis_length(shapes) # 1 /\ Len(out_shapes) > 1

\* the condition under which an operand's axis is split to the output leafshape
needs_split(shapes, out_shapes) ==
  shapes # out_shapes /\ _axis_length(shapes) # 1

\* the loop over the axes of one operand, from `axis` on; acc holds the
\* operand's leaves and leafshapes_ so far, or the exception raised
RECURSIVE naryop_split(_, _, _, _)
naryop_split(leafshapes, out_leafshapes, axis, acc) ==
  IF axis = Len(leafshapes) \/ acc.err # "none" THEN acc
  ELSE IF needs_split(leafshapes[axis + 1], out_leafshapes[axis + 1])
  THEN LET e == _split_leaves_err(leafshapes, acc.leaves, axis, out_leafshapes[axis + 1])
       IN naryop_split(leafshapes, out_leafshapes, axis + 1,
            IF e # "none" THEN [acc EXCEPT !.err = e]
            ELSE [err |-> "none",
                  leaves |-> _split_leaves(leafshapes, acc.leaves, axis,
                                           out_leafshapes[axis + 1]),
                  leafshapes_ |-> [acc.leafshapes_ EXCEPT ![axis + 1] =
                                     out_leafshapes[axis + 1]]])
  ELSE naryop_split(leafshapes, out_leafshapes, axis + 1, acc)

\* leafshapes_fixed and leaves_fixed of one operand
naryop_fixed(leafshapes, leaves, out_leafshapes) ==
  naryop_split(leafshapes, out_leafshapes, 0,
               [err |-> "none", leaves |-> leaves, leafshapes_ |-> leafshapes])

naryop_in_coords(leafshapes, out_coords) ==
  [a \in 1..Len(out_coords) |-> IF Len(leafshapes[a]) # 1 THEN out_coords[a] ELSE 0]

broadcasting_dims(leafshapes) ==
  SelectSeq([a \in 1..Len(leafshapes) |-> a - 1],
            LAMBDA a : leafshapes[a + 1] = << <<1>> >>)

\* the exception raised while preparing one operand's argument at out_coords
naryop_arg_err(leafshapes, leaves, out_leafshapes, out_coords) ==
  LET in_coords == naryop_in_coords(leafshapes, out_coords)
      remove_dims == _axes_for_leaf(leafshapes, in_coords, broadcasting_dims(leafshapes))
      insert_dims == _axes_for_leaf(out_leafshapes, out_coords,
                                    broadcasting_dims(leafshapes))
  IN IF in_coords \notin DOMAIN leaves THEN "KeyError"
     ELSE IF ~squeeze_ok(leaves[in_coords], remove_dims) THEN "SqueezeError"
     ELSE IF ~expand_dims_ok(squeeze(leaves[in_coords], remove_dims), insert_dims)
     THEN "ExpandDimsError"
     ELSE "none"

naryop_arg(leafshapes, leaves, out_leafshapes, out_coords) ==
  LET in_coords == naryop_in_coords(leafshapes, out_coords)
      remove_dims == _axes_for_leaf(leafshapes, in_coords, broadcasting_dims(leafshapes))
      insert_dims == _axes_for_leaf(out_leafshapes, out_coords,
                                    broadcasting_dims(leafshapes))
  IN expand_dims(squeeze(leaves[in_coords], remove_dims), insert_dims)

naryop_tree_rule(prim, treedefs_in0, leafshapes_in0, leaves_in0) ==
  LET f == _filter_scalar_leaves(treedefs_in0, leafshapes_in0, leaves_in0)
      treedefs_in == f.treedefs_out
      leafshapes_in == f.leafshapes_out
      leaves_in == f.leaves_out
      scalars == f.scalars
      n == Len(treedefs_in)
      ndim == Len(treedefs_in[1])
      axes == [a \in 1..ndim |-> a - 1]
      out_treedefs == [a \in 1..ndim |-> naryop_out_treedef(treedefs_in, a - 1)]
      out_leafshapes == [a \in 1..ndim |-> naryop_out_leafshape(leafshapes_in, a - 1)]
      check_err == FirstErr([a \in 1..ndim |->
                               naryop_axis_err(treedefs_in, leafshapes_in, a - 1)])
      fixed == [k \in 1..n |->
                  naryop_fixed(leafshapes_in[k], leaves_in[k], out_leafshapes)]
      split_err == FirstErr([k \in 1..n |-> fixed[k].err])
      coords == _iter_leaf_coords(out_treedefs)
      arg_err(c) == FirstErr([k \in 1..n |->
                                naryop_arg_err(fixed[k].leafshapes_, fixed[k].leaves,
                                               out_leafshapes, c)])
      args(c) == insert_scalars(
                   [k \in 1..n |-> naryop_arg(fixed[k].leafshapes_, fixed[k].leaves,
                                              out_leafshapes, c)],
                   scalars)
      call_err(c) == IF arg_err(c) # "none" THEN arg_err(c)
                     ELSE IF ~bind_ok(args(c)) THEN "KernelShapeError"
                     ELSE "none"
      compute_err == FirstErr([k \in 1..Len(coords) |-> call_err(coords[k])])
  IN IF n = 0
     THEN LET scalar_args == [k \in 1..Len(scalars) |-> scalars[k][2]]
          IN RuleOk(<<>>, <<>>, [c \in {<<>>} |-> bind(prim, scalar_args)],
                    [c \in {<<>>} |-> scalar_args])
     ELSE IF Cardinality({Len(treedefs_in[k]) : k \in 1..n}) # 1
     THEN RuleErr("RankMismatch")
     ELSE IF check_err # "none" THEN RuleErr(check_err)
     ELSE IF split_err # "none" THEN RuleErr(split_err)
     ELSE IF compute_err # "none" THEN RuleErr(compute_err)
     ELSE RuleOk(out_treedefs, out_leafshapes,
                 [c \in ToSet(coords) |-> bind(prim, args(c))],
                 [c \in ToSet(coords) |-> args(c)])


(***************************************************************************)
(* Concatenate.                                                            *)
(***************************************************************************)
\* checks that treat the concatenated axis like every other axis
concatenate_axis_err_unrestricted(treedefs_in, leafshapes_in, axis, dimension) ==
  LET treedefs == non_trivial_treedefs(treedefs_in, axis)
      shapes == non_trivial_shapes(leafshapes_in, axis)
  IN IF Cardinality(treedefs) > 1 THEN "ConflictingStructure"
     ELSE IF Cardinality(shapes) > 1 THEN "ConflictingShape"
     ELSE IF shapes = {} /\ axis # dimension /\ Len(leafshapes_in) # 1
     THEN "UnpackError"
     ELSE "none"

\* the exception one pass of the loop over the axes raises, "none" if it
\* passes; `size, = lengths` unpacks a list with one length per operand
concatenate_axis_err(treedefs_in, leafshapes_in, axis, dimension) ==
  LET treedefs == non_trivial_treedefs(treedefs_in, axis)
      shapes == non_trivial_shapes(leafshapes_in, axis)
  IN IF axis = dimension /\ treedefs # {} THEN "InvalidConcatenateAxis"
     ELSE IF Cardinality(treedefs) > 1 THEN "ConflictingStructure"
     ELSE IF axis = dimension /\ shapes # {} THEN "InvalidConcatenateAxis"
     ELSE IF Cardinality(shapes) > 1 THEN "ConflictingShape"
     ELSE IF shapes = {} /\ axis # dimension /\ Len(leafshapes_in) # 1
     THEN "UnpackError"
     ELSE "none"

\* an output leafshape that takes the first operand's length on every axis
concatenate_out_leafshape_first_length(leafshapes_in, axis, dimension) ==
  IF Cardinality(non_trivial_shapes(leafshapes_in, axis)) = 1
  THEN CHOOSE shapes \in non_trivial_shapes(leafshapes_in, axis) : TRUE
  ELSE << <<_axis_length(leafshapes_in[1][axis + 1])>> >>

concatenate_out_leafshape(leafshapes_in, axis, dimension) ==
  LET lengths == [i \in 1..Len(leafshapes_in) |-> _axis_length(leafshapes_in[i][axis + 1])]
  IN IF Cardinality(non_trivial_shapes(leafshapes_in, axis)) = 1
     THEN CHOOSE shapes \in non_trivial_shapes(leafshapes_in, axis) : TRUE
     ELSE IF axis = dimension THEN << <<SumSeq(lengths)>> >>
     ELSE << <<lengths[1]>> >>

\* the loop over the axes of one operand, from `axis` on; acc holds the
\* operand's leaves so far, or the exception raised
RECURSIVE concatenate_split(_, _, _, _, _)
concatenate_split(leafshapes, out_leafshapes, dimension, axis, acc) ==
  IF axis = Len(leafshapes) \/ acc.err # "none" THEN acc
  ELSE IF axis # dimension /\ leafshapes[axis + 1] # out_leafshapes[axis + 1]
  THEN LET e == _split_leaves_err(leafshapes, acc.leaves, axis, out_leafshapes[axis + 1])
       IN concatenate_split(leafshapes, out_leafshapes, dimension, axis + 1,
            IF e # "none" THEN [acc EXCEPT !.err = e]
            ELSE [err |-> "none",
                  leaves |-> _split_leaves(leafshapes, acc.leaves, axis,
                                           out_leafshapes[axis + 1])])
  ELSE concatenate_split(leafshapes, out_leafshapes, dimension, axis + 1, acc)

concatenate_tree_rule(treedefs_in, leafshapes_in, leaves_in, dimension) ==
  LET n == Len(treedefs_in)
      ndim == Len(treedefs_in[1])
      out_treedefs == [a \in 1..ndim |-> naryop_out_treedef(treedefs_in, a - 1)]
      out_leafshapes == [a \in 1..ndim |->
                           concatenate_out_leafshape(leafshapes_in, a - 1, dimension)]
      check_err == FirstErr([a \in 1..ndim |->
                     concatenate_axis_err(treedefs_in, leafshapes_in, a - 1, dimension)])
      fixed == [k \in 1..n |->
                  concatenate_split(leafshapes_in[k], out_leafshapes, dimension, 0,
                                    [err |-> "none", leaves |-> leaves_in[k]])]
      split_err == FirstErr([k \in 1..n |-> fixed[k].err])
      coords == _iter_leaf_coords(out_treedefs)
      args(c) == [k \in 1..n |-> fixed[k].leaves[c]]
      leaf_dims(c) == _axes_for_leaf(out_leafshapes, c, <<dimension>>)
      call_err(c) ==
        IF \E k \in 1..n : c \notin DOMAIN fixed[k].leaves THEN "KeyError"
        ELSE IF Len(leaf_dims(c)) # 1 THEN "UnpackError"
        ELSE IF ~concatenate_ok(args(c), leaf_dims(c)[1]) THEN "KernelShapeError"
        ELSE "none"
      compute_err == FirstErr([k \in 1..Len(coords) |-> call_err(coords[k])])
  IN IF n = 0 \/ Cardinality({Len(treedefs_in[k]) : k \in 1..n}) # 1
     THEN RuleErr("RankMismatch")
     ELSE IF check_err # "none" THEN RuleErr(check_err)
     ELSE IF split_err # "none" THEN RuleErr(split_err)
     ELSE IF compute_err # "none" THEN RuleErr(compute_err)
     ELSE RuleOk(out_treedefs, out_leafshapes,
                 [c \in ToSet(coords) |-> concatenate(args(c), leaf_dims(c)[1])],
                 [c \in ToSet(coords) |-> args(c)])


(***************************************************************************)
(* Shape rules of one operand: broadcast_in_dim, squeeze, transpose.       *)
(***************************************************************************)
\* the operand axes sent to output position k (0-based)
broadcast_sources(broadcast_dimensions, k) ==
  {i \in 1..Len(broadcast_dimensions) : broadcast_dimensions[i] = k}

\* the last assignment out_treedefs[output_dim] = treedefs[input_dim]
broadcast_out_treedef(treedefs, broadcast_dimensions, k) ==
  LET src == broadcast_sources(broadcast_dimensions, k)
  IN IF src = {} THEN TRIVIAL_TREEDEF
     ELSE treedefs[CHOOSE i \in src : \A j \in src : j <= i]

broadcast_out_leafshape(treedefs, leafshapes, shape, broadcast_dimensions, k) ==
  LET src == {i \in broadcast_sources(broadcast_dimensions, k) :
                ~is_trivial_axis(treedefs[i], leafshapes[i])}
  IN IF src = {} THEN << <<item(shape, k)>> >>
     ELSE leafshapes[CHOOSE i \in src : \A j \in src : j <= i]

\* a loop that lets every axis be resized
broadcast_axis_err_resizable(treedefs, leafshapes, shape, broadcast_dimensions, i) ==
  IF broadcast_dimensions[i] >= Len(shape) \/ i > Len(treedefs) THEN "IndexError"
  ELSE "none"

\* the exception one pass of the loop over broadcast_dimensions raises
broadcast_axis_err(treedefs, leafshapes, shape, broadcast_dimensions, i) ==
  IF broadcast_dimensions[i] >= Len(shape) \/ i > Len(treedefs) THEN "IndexError"
  ELSE IF /\ ~is_trivial_axis(treedefs[i], leafshapes[i])
          /\ _axis_length(leafshapes[i]) # item(shape, broadcast_dimensions[i])
  THEN "ResizeError"
  ELSE "none"

broadcast_in_dim_tree_rule(treedefs_in, leafshapes_in, leaves_in, shape, broadcast_dimensions) ==
  LET treedefs == treedefs_in[1]
      leafshapes == leafshapes_in[1]
      leaves == leaves_in[1]
      n == Len(shape)
      out_treedefs == [k \in 1..n |->
                         broadcast_out_treedef(treedefs, broadcast_dimensions, k - 1)]
      out_leafshapes == [k \in 1..n |->
                           broadcast_out_leafshape(treedefs, leafshapes, shape,
                                                   broadcast_dimensions, k - 1)]
      axis_err == FirstErr([i \in 1..Len(broadcast_dimensions) |->
                    broadcast_axis_err(treedefs, leafshapes, shape,
                                       broadcast_dimensions, i)])
      ins == _iter_leaf_coords(treedefs)
      outs == _iter_leaf_coords(out_treedefs)
      pairs == IF Len(ins) <= Len(outs) THEN Len(ins) ELSE Len(outs)
      leaf_shape(k) == _leafshape(out_leafshapes, outs[k])
      leaf_bdims(k) == _axes_for_leaf(out_leafshapes, outs[k], broadcast_dimensions)
      call_err(k) ==
        IF ins[k] \notin DOMAIN leaves THEN "KeyError"
        ELSE IF ~lax_broadcast_in_dim_ok(leaves[ins[k]], leaf_shape(k), leaf_bdims(k))
        THEN "KernelShapeError"
        ELSE "none"
      compute_err == FirstErr([k \in 1..pairs |-> call_err(k)])
      at(c) == CHOOSE k \in 1..pairs : outs[k] = c /\ \A j \in 1..pairs : outs[j] = c => j <= k
  IN IF Len(treedefs_in) # 1 THEN RuleErr("UnpackError")
     ELSE IF axis_err # "none" THEN RuleErr(axis_err)
     ELSE IF compute_err # "none" THEN RuleErr(compute_err)
     ELSE RuleOk(out_treedefs, out_leafshapes,
                 [c \in {outs[k] : k \in 1..pairs} |->
                    lax_broadcast_in_dim(leaves[ins[at(c)]], leaf_shape(at(c)),
                                         leaf_bdims(at(c)))],
                 [c \in {outs[k] : k \in 1..pairs} |-> <<leaves[ins[at(c)]]>>])

\* a check that rejects every axis is_trivial_axis rejects
squeeze_axis_err_trivial_axis(treedefs, leafshapes, dimensions, axis) ==
  IF axis \in ToSet(dimensions) /\ ~is_trivial_axis(treedefs[axis + 1], leafshapes[axis + 1])
  THEN "InvalidSqueezeAxis"
  ELSE "none"

\* the exception one pass of the loop over the axes raises
squeeze_axis_err(treedefs, leafshapes, dimensions, axis) ==
  IF axis \in ToSet(dimensions) /\ ~TreedefEq(treedefs[axis + 1], TRIVIAL_TREEDEF)
  THEN "InvalidSqueezeAxis"
  ELSE "none"

squeeze_tree_rule(treedefs_in, leafshapes_in, leaves_in, dimensions) ==
  LET treedefs == treedefs_in[1]
      leafshapes == leafshapes_in[1]
      leaves == leaves_in[1]
      axis_err == FirstErr([a \in 1..Len(treedefs) |->
                    squeeze_axis_err(treedefs, leafshapes, dimensions, a - 1)])
      out_treedefs == Without(treedefs, ToSet(dimensions))
      out_leafshapes == Without(leafshapes, ToSet(dimensions))
      ins == _iter_leaf_coords(treedefs)
      outs == _iter_leaf_coords(out_treedefs)
      pairs == IF Len(ins) <= Len(outs) THEN Len(ins) ELSE Len(outs)
      leaf_dims(k) == _axes_for_leaf(leafshapes, ins[k], dimensions)
      call_err(k) ==
        IF ins[k] \notin DOMAIN leaves THEN "KeyError"
        ELSE IF ~squeeze_ok(leaves[ins[k]], leaf_dims(k)) THEN "SqueezeError"
        ELSE "none"
      compute_err == FirstErr([k \in 1..pairs |-> call_err(k)])
      at(c) == CHOOSE k \in 1..pairs : outs[k] = c /\ \A j \in 1..pairs : outs[j] = c => j <= k
  IN IF Len(treedefs_in) # 1 THEN RuleErr("UnpackError")
     ELSE IF axis_err # "none" THEN RuleErr(axis_err)
     ELSE IF compute_err # "none" THEN RuleErr(compute_err)
     ELSE RuleOk(out_treedefs, out_leafshapes,
                 [c \in {outs[k] : k \in 1..pairs} |->
                    squeeze(leaves[ins[at(c)]], leaf_dims(at(c)))],
                 [c \in {outs[k] : k \in 1..pairs} |-> <<leaves[ins[at(c)]]>>])

\* a leaf permutation that follows the order of the logical permutation
transpose_leaf_perm_ordered(leafshapes, in_coords, permutation) ==
  _concat_tuple([k \in 1..Len(permutation) |->
                   _axes_for_leaf(leafshapes, in_coords, <<permutation[k]>>)])

\* leaf_perm = _axes_for_leaf(leafshapes, in_coords, permutation)
transpose_leaf_perm(leafshapes, in_coords, permutation) ==
  _axes_for_leaf(leafshapes, in_coords, permutation)

transpose_tree_rule(treedefs_in, leafshapes_in, leaves_in, permutation) ==
  LET treedefs == treedefs_in[1]
      leafshapes == leafshapes_in[1]
      leaves == leaves_in[1]
      out_treedefs == [k \in 1..Len(permutation) |-> item(treedefs, permutation[k])]
      out_leafshapes == [k \in 1..Len(permutation) |-> item(leafshapes, permutation[k])]
      ins == _iter_leaf_coords(treedefs)
      out_coords(k) == [j \in 1..Len(permutation) |-> item(ins[k], permutation[j])]
      leaf_perm(k) == transpose_leaf_perm(leafshapes, ins[k], permutation)
      call_err(k) ==
        IF ins[k] \notin DOMAIN leaves THEN "KeyError"
        ELSE IF ~lax_transpose_ok(leaves[ins[k]], leaf_perm(k)) THEN "KernelShapeError"
        ELSE "none"
      compute_err == FirstErr([k \in 1..Len(ins) |-> call_err(k)])
      at(c) == CHOOSE k \in 1..Len(ins) :
                 out_coords(k) = c /\ \A j \in 1..Len(ins) : out_coords(j) = c => j <= k
  IN IF Len(treedefs_in) # 1 THEN RuleErr("UnpackError")
     ELSE IF \E k \in 1..Len(permutation) : permutation[k] >= Len(treedefs)
     THEN RuleErr("IndexError")
     ELSE IF compute_err # "none" THEN RuleErr(compute_err)
     ELSE RuleOk(out_treedefs, out_leafshapes,
                 [c \in {out_coords(k) : k \in 1..Len(ins)} |->
                    lax_transpose(leaves[ins[at(c)]], leaf_perm(at(c)))],
                 [c \in {out_coords(k) : k \in 1..Len(ins)} |-> <<leaves[ins[at(c)]]>>])

(***************************************************************************)
(* Reductions.                                                             *)
(***************************************************************************)
\* keeping the last contribution instead of folding them
reduce_list_last(binop, v) == v[Len(v)]

\* functools.reduce(binop, v), for a non-empty list v
RECURSIVE reduce_list(_, _)
reduce_list(binop, v) ==
  IF Len(v) = 1 THEN v[1]
  ELSE bind(binop, <<reduce_list(binop, SubSeq(v, 1, Len(v) - 1)), v[Len(v)]>>)

\* the exception reduce(binop, v) raises, "none" if it returns
RECURSIVE reduce_list_err(_, _)
reduce_list_err(binop, v) ==
  IF v = <<>> THEN "TypeError"
  ELSE IF Len(v) = 1 THEN "none"
  ELSE LET front == SubSeq(v, 1, Len(v) - 1)
       IN IF reduce_list_err(binop, front) # "none" THEN reduce_list_err(binop, front)
          ELSE IF ~bind_ok(<<reduce_list(binop, front), v[Len(v)]>>)
          THEN "KernelShapeError"
          ELSE "none"

reducer_tree_rule(prim, binop, treedefs_in, leafshapes_in, leaves_in, axes) ==
  LET treedefs == treedefs_in[1]
      leafshapes == leafshapes_in[1]
      leaves == leaves_in[1]
      out_treedefs == Without(treedefs, ToSet(axes))
      out_leafshapes == Without(leafshapes, ToSet(axes))
      in_coords == _iter_leaf_coords(treedefs)
      leaf_axes(c) == _axes_for_leaf(leafshapes, c, axes)
      bind_err(c) == IF c \notin DOMAIN leaves THEN "KeyError"
                     ELSE IF ~reduce_ok(leaves[c], leaf_axes(c)) THEN "KernelShapeError"
                     ELSE "none"
      loop_err == FirstErr([k \in 1..Len(in_coords) |-> bind_err(in_coords[k])])
      reduced_leaf(c) == reduce_bind(prim, leaves[c], leaf_axes(c))
      \* out_nodes[k]: the reduced leaves appended for out_coords k, in order
      out_nodes ==
        [k \in ToSet(_iter_leaf_coords(out_treedefs)) |->
           LET from == SelectSeq(in_coords, LAMBDA c : Without(c, ToSet(axes)) = k)
           IN [j \in 1..Len(from) |-> reduced_leaf(from[j])]]
      out_keys == _iter_leaf_coords(out_treedefs)
      fold_err == FirstErr([k \in 1..Len(out_keys) |->
                              reduce_list_err(binop, out_nodes[out_keys[k]])])
  IN IF loop_err # "none" THEN RuleErr(loop_err)
     ELSE IF fold_err # "none" THEN RuleErr(fold_err)
     ELSE RuleOk(out_treedefs, out_leafshapes,
                 [k \in DOMAIN out_nodes |-> reduce_list(binop, out_nodes[k])],
                 out_nodes)


(***************************************************************************)
(* Contraction (dot_general).                                              *)
(***************************************************************************)
\* [t[i] for i in idxs]
Select(t, idxs) == [k \in 1..Len(idxs) |-> item(t, idxs[k])]

\* itertools.chain(zip(batch, batch), zip(lhs_contracting, rhs_contracting))
dot_pairs(batch, lhs_contracting, rhs_contracting) ==
  [i \in 1..Len(batch) |-> <<batch[i], batch[i]>>]
    \o [i \in 1..(IF Len(lhs_contracting) <= Len(rhs_contracting)
                  THEN Len(lhs_contracting) ELSE Len(rhs_contracting)) |->
          <<lhs_contracting[i], rhs_contracting[i]>>]

\* the check of one pair of axes with the segments compared before the
\* descriptors
dot_pair_err_segments_first(lhs_treedefs, rhs_treedefs, lhs_leafshapes, rhs_leafshapes, pair) ==
  IF pair[1] >= Len(lhs_treedefs) \/ pair[2] >= Len(rhs_treedefs) THEN "IndexError"
  ELSE IF item(lhs_leafshapes, pair[1]) # item(rhs_leafshapes, pair[2])
  THEN "ConflictingShape"
  ELSE IF ~TreedefEq(item(lhs_treedefs, pair[1]), item(rhs_treedefs, pair[2]))
  THEN "ConflictingStructure"
  ELSE "none"

\* the exception the check of one pair of axes raises, "none" if it passes
dot_pair_err(lhs_treedefs, rhs_treedefs, lhs_leafshapes, rhs_leafshapes, pair) ==
  IF pair[1] >= Len(lhs_treedefs) \/ pair[2] >= Len(rhs_treedefs) THEN "IndexError"
  ELSE IF ~TreedefEq(item(lhs_treedefs, pair[1]), item(rhs_treedefs, pair[2]))
  THEN "ConflictingStructure"
  ELSE IF item(lhs_leafshapes, pair[1]) # item(rhs_leafshapes, pair[2])
  THEN "ConflictingShape"
  ELSE "none"

\* rhs coordinates that take block 0 on every contracted axis
RECURSIVE dot_rhs_only_coords_first(_, _, _)
dot_rhs_only_coords_first(rhs_only_coords, lhs_coords, pairs) ==
  IF pairs = <<>> THEN rhs_only_coords
  ELSE dot_rhs_only_coords_first(insert(rhs_only_coords, pairs[1][2], 0),
                                 lhs_coords, Tail(pairs))

\* for lhs_axis, rhs_axis in zip(lhs_contracting, rhs_contracting):
\*   rhs_only_coords.insert(rhs_axis, lhs_coords[lhs_axis])
RECURSIVE dot_rhs_only_coords(_, _, _)
dot_rhs_only_coords(rhs_only_coords, lhs_coords, pairs) ==
  IF pairs = <<>> THEN rhs_only_coords
  ELSE dot_rhs_only_coords(insert(rhs_only_coords, pairs[1][2],
                                  item(lhs_coords, pairs[1][1])),
                           lhs_coords, Tail(pairs))

\* rhs_coords = lhs_coords[:len(batch)] + tuple(rhs_only_coords)
dot_rhs_coords(lhs_coords, rhs_nonbatch_coords, batch, lhs_contracting, rhs_contracting) ==
  SubSeq(lhs_coords, 1, Len(batch))
    \o dot_rhs_only_coords(rhs_nonbatch_coords, lhs_coords,
                           dot_pairs(<<>>, lhs_contracting, rhs_contracting))

\* enumerate(coords) reaches a segment that leafshapes does not have
coords_out_of_range(leafshapes, coords) ==
  \/ Len(coords) > Len(leafshapes)
  \/ \E k \in 1..Len(coords) : coords[k] >= Len(leafshapes[k])

dot_general_tree_rule(treedefs_in, leafshapes_in, leaves_in, dimension_numbers) ==
  LET lhs_contracting == dimension_numbers.lhs_contracting
      rhs_contracting == dimension_numbers.rhs_contracting
      lhs_batch == dimension_numbers.lhs_batch
      rhs_batch == dimension_numbers.rhs_batch
      batch == lhs_batch
      lhs_treedefs == treedefs_in[1]
      rhs_treedefs == treedefs_in[2]
      lhs_leafshapes == leafshapes_in[1]
      rhs_leafshapes == leafshapes_in[2]
      lhs_leaves == leaves_in[1]
      rhs_leaves == leaves_in[2]
      pairs == dot_pairs(batch, lhs_contracting, rhs_contracting)
      check_err == FirstErr([k \in 1..Len(pairs) |->
                     dot_pair_err(lhs_treedefs, rhs_treedefs,
                                  lhs_leafshapes, rhs_leafshapes, pairs[k])])
      lhs_remaining == Remaining(Len(lhs_treedefs), ToSet(lhs_contracting) \cup ToSet(batch))
      rhs_remaining == Remaining(Len(rhs_treedefs), ToSet(rhs_contracting) \cup ToSet(batch))
      out_treedefs == Select(lhs_treedefs, batch \o lhs_remaining)
                        \o Select(rhs_treedefs, rhs_remaining)
      out_leafshapes == Select(lhs_leafshapes, batch \o lhs_remaining)
                          \o Select(rhs_leafshapes, rhs_remaining)
      out_keys == _iter_leaf_coords(out_treedefs)
      rhs_nonbatch_treedefs == Select(rhs_treedefs, rhs_remaining)
      lhs_all == _iter_leaf_coords(lhs_treedefs)
      rhs_all == _iter_leaf_coords(rhs_nonbatch_treedefs)
      \* the passes of the two nested loops, in order
      passes == [k \in 1..(Len(lhs_all) * Len(rhs_all)) |->
                   <<lhs_all[((k - 1) \div Len(rhs_all)) + 1],
                     rhs_all[((k - 1) % Len(rhs_all)) + 1]>>]
      rhs_coords(ps) == dot_rhs_coords(ps[1], ps[2], batch, lhs_contracting, rhs_contracting)
      out_coords(ps) == Select(ps[1], batch \o lhs_remaining)
                          \o Select(rhs_coords(ps), rhs_remaining)
      leaf_lhs_contracting(ps) == _axes_for_leaf(lhs_leafshapes, ps[1], lhs_contracting)
      leaf_rhs_contracting(ps) == _axes_for_leaf(rhs_leafshapes, rhs_coords(ps),
                                                 rhs_contracting)
      leaf_batch(ps) == _axes_for_leaf(lhs_leafshapes, ps[1], batch)
      pass_err(ps) ==
        IF \E i \in ToSet(rhs_remaining) : i >= Len(rhs_coords(ps)) THEN "IndexError"
        ELSE IF coords_out_of_range(rhs_leafshapes, rhs_coords(ps)) THEN "IndexError"
        ELSE IF leaf_batch(ps) # _axes_for_leaf(rhs_leafshapes, rhs_coords(ps), batch)
        THEN "AssertionError"
        ELSE IF ps[1] \notin DOMAIN lhs_leaves \/ rhs_coords(ps) \notin DOMAIN rhs_leaves
        THEN "KeyError"
        ELSE IF ~dot_general_ok(lhs_leaves[ps[1]], rhs_leaves[rhs_coords(ps)],
                                leaf_lhs_contracting(ps), leaf_rhs_contracting(ps),
                                leaf_batch(ps), leaf_batch(ps))
        THEN "KernelShapeError"
        ELSE IF out_coords(ps) \notin ToSet(out_keys) THEN "KeyError"
        ELSE "none"
      loop_err == FirstErr([k \in 1..Len(passes) |-> pass_err(passes[k])])
      reduced_leaf(ps) ==
        dot_general(lhs_leaves[ps[1]], rhs_leaves[rhs_coords(ps)],
                    leaf_lhs_contracting(ps), leaf_rhs_contracting(ps),
                    leaf_batch(ps), leaf_batch(ps))
      out_nodes ==
        [c \in ToSet(out_keys) |->
           LET from == SelectSeq(passes, LAMBDA ps : out_coords(ps) = c)
           IN [j \in 1..Len(from) |-> reduced_leaf(from[j])]]
      fold_err == FirstErr([k \in 1..Len(out_keys) |->
                              reduce_list_err("add", out_nodes[out_keys[k]])])
  IN IF lhs_batch # rhs_batch \/ Len(treedefs_in) # 2 THEN RuleErr("UnpackError")
     ELSE IF check_err # "none" THEN RuleErr(check_err)
     ELSE IF loop_err # "none" THEN RuleErr(loop_err)
     ELSE IF fold_err # "none" THEN RuleErr(fold_err)
     ELSE RuleOk(out_treedefs, out_leafshapes,
                 [c \in DOMAIN out_nodes |-> reduce_list("add", out_nodes[c])],
                 out_nodes)


(***************************************************************************)
(* The rule registry and TreeTrace.process_primitive.                      *)
(***************************************************************************)
\* tree_rules: the rule registered for each primitive of the model
\* (defvectorized, defnaryop, defreducer and the direct assignments)
tree_rules ==
  [p \in {"neg", "device_put", "add", "sub", "max", "reduce_sum", "reduce_max",
          "concatenate", "dot_general"} |->
     CASE p \in {"neg", "device_put"} -> "vectorized_tree_rule"
       [] p \in {"add", "sub", "max"} -> "naryop_tree_rule"
       [] p \in {"reduce_sum", "reduce_max"} -> "reducer_tree_rule"
       [] p = "concatenate" -> "concatenate_tree_rule"
       [] p = "dot_general" -> "dot_general_tree_rule"]

\* a lookup that falls back to the unary rule for an unregistered primitive
lookup_rule_with_default(primitive) ==
  IF primitive \in DOMAIN tree_rules THEN tree_rules[primitive]
  ELSE "vectorized_tree_rule"

\* rule = tree_rules[primitive]; the lookup of an absent key raises
lookup_rule(primitive) ==
  IF primitive \in DOMAIN tree_rules THEN tree_rules[primitive] ELSE "KeyError"

\* rule(treedefs_in, leafshapes_in, leaves_in, **params)
call_rule(rule, primitive, treedefs_in, leafshapes_in, leaves_in, params_in) ==
  CASE rule = "vectorized_tree_rule" ->
         vectorized_tree_rule(primitive, treedefs_in, leafshapes_in, leaves_in)
    [] rule = "naryop_tree_rule" ->
         naryop_tree_rule(primitive, treedefs_in, leafshapes_in, leaves_in)
    [] rule = "reducer_tree_rule" ->
         reducer_tree_rule(primitive, binop_of(primitive), treedefs_in, leafshapes_in,
                           leaves_in, params_in.axes)
    [] rule = "concatenate_tree_rule" ->
         concatenate_tree_rule(treedefs_in, leafshapes_in, leaves_in, params_in.dimension)
    [] rule = "dot_general_tree_rule" ->
         dot_general_tree_rule(treedefs_in, leafshapes_in, leaves_in,
                               params_in.dimension_numbers)

\* process_primitive up to the rule's return; no primitive of the model has
\* multiple results
process_primitive(primitive, tracers_in, params_in) ==
  LET rule == lookup_rule(primitive)
      treedefs_in == [k \in 1..Len(tracers_in) |-> tracers_in[k].treedefs]
      leafshapes_in == [k \in 1..Len(tracers_in) |-> tracers_in[k].leafshapes]
      leaves_in == [k \in 1..Len(tracers_in) |-> tracers_in[k].leaves]
  IN IF rule = "KeyError" THEN RuleErr("UnsupportedPrimitive")
     ELSE call_rule(rule, primitive, treedefs_in, leafshapes_in, leaves_in, params_in)


(***************************************************************************)
(* Operands of the rules: TreeStates that satisfy TreeTracer.__init__.     *)
(***************************************************************************)
\* the treedef of a dict with the given keys and leaf children
DictDef(keys) == tree_structure(Dict(keys, [i \in 1..Len(keys) |-> Leaf(NoArray)]))

\* the treedef convert_vectorized_tree gives a bare leaf: equal to, but not
\* the same object as, TRIVIAL_TREEDEF
FreshLeafDef == tree_structure(Leaf(NoArray))

Axis(treedef, shapes) == [treedef |-> treedef, shapes |-> shapes]

\* plain array axes of every length up to MaxSize
PlainAxes == {Axis(TRIVIAL_TREEDEF, << <<n>> >>) : n \in 1..MaxSize}

\* axes that carry a flattened container
TreeAxes ==
  { Axis(DictDef(<<"a", "b">>), << <<>>, <<2>> >>),
    Axis(DictDef(<<"a", "b">>), << <<1>>, <<1, 2>> >>),
    Axis(DictDef(<<"c", "d">>), << <<>>, <<2>> >>) }

\* the single axis of a converted bare leaf of rank 0 and of rank 2
LeafAxes ==
  { Axis(FreshLeafDef, << <<>> >>), Axis(FreshLeafDef, << <<1, 2>> >>) }

AxisChoices == PlainAxes \cup TreeAxes \cup LeafAxes

\* the choices for the second axis of a rank-2 operand
SecondAxisChoices ==
  { Axis(TRIVIAL_TREEDEF, << <<1>> >>), Axis(TRIVIAL_TREEDEF, << <<3>> >>),
    Axis(DictDef(<<"a", "b">>), << <<>>, <<2>> >>),
    Axis(DictDef(<<"c", "d">>), << <<>>, <<2>> >>) }

AxesChoices ==
  {<<a>> : a \in AxisChoices} \cup {<<a, b>> : a \in AxisChoices, b \in SecondAxisChoices}

\* the operand with the given axes whose blocks hold distinct values from seed on
Operand(axes, seed) ==
  LET treedefs == [k \in 1..Len(axes) |-> axes[k].treedef]
      leafshapes == [k \in 1..Len(axes) |-> axes[k].shapes]
      ns == [k \in 1..Len(axes) |-> Len(axes[k].shapes)]
  IN TreeState(treedefs, leafshapes,
               [c \in ToSet(product(ns)) |->
                  Iota(_leafshape(leafshapes, c), "int", seed + 10 * Ravel(ns, c))])

\* a rank-0 operand: TreeTrace.pure of a Python scalar
ScalarOperand(v) == convert_leaf_array(Scalar(v, "int"))

treedefs_of(ts) == [k \in 1..Len(ts) |-> ts[k].treedefs]
leafshapes_of(ts) == [k \in 1..Len(ts) |-> ts[k].leafshapes]
leaves_of(ts) == [k \in 1..Len(ts) |-> ts[k].leaves]

(***************************************************************************)
(* Specification SpecNary: process_primitive of an n-ary elementwise       *)
(* primitive on up to two structured operands of equal rank and any        *)
(* rank-0 operands.                                                        *)
(***************************************************************************)
\* the structured operands: none, one, or two of equal rank
StructuredTuples ==
  {<<>>} \cup {<<Operand(a, 1)>> : a \in AxesChoices}
    \cup {<<Operand(ab[1], 1), Operand(ab[2], 100)>> :
            ab \in {x \in AxesChoices \X AxesChoices : Len(x[1]) = Len(x[2])}}

\* the tuples ts with rank-0 operands inserted, at most MaxScalars of them
RECURSIVE WithScalars(_, _)
WithScalars(ts, k) ==
  IF k = 0 THEN {ts}
  ELSE LET less == WithScalars(ts, k - 1)
       IN less \cup {insert(t, i, ScalarOperand(1000 * Len(t) + 7)) :
                       t \in {u \in less : Len(u) = Len(ts) + k - 1},
                       i \in 0..(Len(ts) + k - 1)}

NaryPrims == {"add", "sub"}

InitNary ==
  /\ pc = "naryop"
  /\ tree = NoTree
  /\ \E ts \in StructuredTuples :
       tracers \in {t \in WithScalars(ts, MaxScalars) : Len(t) >= 1}
  /\ \E prim \in NaryPrims : params = [prim |-> prim]
  /\ out = NoOut
  /\ tracer = NoOut
  /\ restored = NoTree
  /\ lowered = NoOut

\* process_primitive for a primitive registered with defnaryop
Naryop ==
  /\ pc = "naryop"
  /\ out' = naryop_tree_rule(params.prim, treedefs_of(tracers),
                             leafshapes_of(tracers), leaves_of(tracers))
  /\ tracer' = wrap_result(out')
  /\ pc' = "done"
  /\ UNCHANGED <<tree, tracers, params, restored, lowered>>

NextNary == Naryop

SpecNary == InitNary /\ [][NextNary]_vars

(***************************************************************************)
(* Properties of the n-ary rule.                                           *)
(***************************************************************************)
NaryDone == pc = "done" /\ params.prim \in NaryPrims

\* the positions of the operands that are not rank 0, and their common rank
Structured == {i \in 1..Len(tracers) : tracers[i].treedefs # <<>>}
StructuredRank == Len(tracers[CHOOSE i \in Structured : TRUE].treedefs)
StructuredAxes == 0..(StructuredRank - 1)

\* the distinct non-TRIVIAL descriptors, and the distinct multi-segment
\* sequences, of the operands on an axis
DescriptorsOn(a) == {tracers[i].treedefs[a + 1].def : i \in Structured} \ {LeafDef}
MultiSegmentsOn(a) ==
  {ss \in {tracers[i].leafshapes[a + 1] : i \in Structured} : Len(ss) > 1}

DescriptorConflict(a) == Cardinality(DescriptorsOn(a)) > 1
SegmentConflict(a) == Cardinality(MultiSegmentsOn(a)) > 1
AnyConflict(a) == DescriptorConflict(a) \/ SegmentConflict(a)

\* an axis with a conflict that no lower axis has
FirstConflict(a) == AnyConflict(a) /\ \A b \in StructuredAxes : b < a => ~AnyConflict(b)

\* the rule raised e and returned nothing, so no tracer was built
FailedWith(e) ==
  /\ out.err = e
  /\ out.treedefs = <<>> /\ out.leafshapes = <<>> /\ out.leaves = <<>>
  /\ tracer = NoOut

\* when the rule returns, the result descriptor of every axis is the one
\* non-TRIVIAL descriptor on it, or TRIVIAL_TREEDEF if there is none
DescriptorAdopted ==
  out.err = "none" =>
    \A a \in StructuredAxes :
      /\ Cardinality(DescriptorsOn(a)) = 1 => DescriptorsOn(a) = {out.treedefs[a + 1].def}
      /\ DescriptorsOn(a) = {} => out.treedefs[a + 1] = TRIVIAL_TREEDEF

\* when the rule returns, the result segments of every axis with one
\* multi-segment sequence are that sequence
SegmentsAdopted ==
  out.err = "none" =>
    \A a \in StructuredAxes :
      Cardinality(MultiSegmentsOn(a)) = 1 => MultiSegmentsOn(a) = {out.leafshapes[a + 1]}

\* C2 as stated: two different non-TRIVIAL descriptors on an axis always make
\* the rule fail with ConflictingStructure; otherwise the one descriptor, or
\* TRIVIAL, is the result descriptor.
ConflictingStructureAlways ==
  NaryDone /\ Structured # {} =>
    /\ \A a \in StructuredAxes : DescriptorConflict(a) => FailedWith("ConflictingStructure")
    /\ DescriptorAdopted

\* C2 amended: two different non-TRIVIAL descriptors on an axis make the rule
\* fail without a result; the error is that of the lowest axis with a
\* conflict: ConflictingStructure if descriptors differ there, else
\* ConflictingShape.  Otherwise the one descriptor, or TRIVIAL, is adopted.
ConflictingStructureFirstAxis ==
  NaryDone /\ Structured # {} =>
    /\ \A a \in StructuredAxes :
         DescriptorConflict(a) =>
           /\ out.err \in {"ConflictingStructure", "ConflictingShape"}
           /\ FailedWith(out.err)
           /\ FirstConflict(a) => out.err = "ConflictingStructure"
           /\ \A b \in StructuredAxes :
                FirstConflict(b) /\ ~DescriptorConflict(b) => out.err = "ConflictingShape"
    /\ DescriptorAdopted

\* the descriptors of {'a':..,'b':..} and {'c':..,'d':..} meet on an axis and
\* the rule raised ConflictingStructure
ConflictingStructureWitness ==
  /\ NaryDone
  /\ Cardinality(Structured) = 2
  /\ \E a \in StructuredAxes :
       DescriptorsOn(a) = {DictDef(<<"a", "b">>).def, DictDef(<<"c", "d">>).def}
  /\ FailedWith("ConflictingStructure")

\* C3 as stated: two different multi-segment sequences on an axis always make
\* the rule fail with ConflictingShape; one such sequence is adopted.
ConflictingShapeAlways ==
  NaryDone /\ Structured # {} =>
    /\ \A a \in StructuredAxes : SegmentConflict(a) => FailedWith("ConflictingShape")
    /\ SegmentsAdopted

\* C3 amended: two different multi-segment sequences on an axis make the rule
\* fail without a result; the error is ConflictingShape when the lowest axis
\* with a conflict has no two different non-TRIVIAL descriptors, and
\* ConflictingStructure when it has.  One multi-segment sequence is adopted.
ConflictingShapeFirstAxis ==
  NaryDone /\ Structured # {} =>
    /\ \A a \in StructuredAxes :
         SegmentConflict(a) =>
           /\ FailedWith(out.err)
           /\ out.err = "ConflictingShape" <=>
                \E b \in StructuredAxes : FirstConflict(b) /\ ~DescriptorConflict(b)
           /\ out.err = "ConflictingStructure" <=>
                \E b \in StructuredAxes : FirstConflict(b) /\ DescriptorConflict(b)
    /\ SegmentsAdopted

\* two operands with the same descriptor and different multi-segment
\* sequences on an axis: the rule raised ConflictingShape
ConflictingShapeWitness ==
  /\ NaryDone
  /\ Cardinality(Structured) = 2
  /\ \E a \in StructuredAxes : SegmentConflict(a) /\ ~DescriptorConflict(a)
  /\ FailedWith("ConflictingShape")

\* the rule applied to the operands in swapped order
SwappedOut ==
  naryop_tree_rule(params.prim, treedefs_of(<<tracers[2], tracers[1]>>),
                   leafshapes_of(<<tracers[2], tracers[1]>>),
                   leaves_of(<<tracers[2], tracers[1]>>))

\* C8: for a structured operand a and a rank-0 operand s, the rule on (a, s)
\* and on (s, a) gives the same axes and block coordinates (or the same
\* failure), each kernel call gets the same two values in swapped positions,
\* the scalar's block at the scalar's position, and add gives equal blocks.
ScalarCommutes ==
  NaryDone /\ Len(tracers) = 2 /\ Cardinality(Structured) = 1 =>
    LET s == CHOOSE i \in 1..2 : i \notin Structured
    IN /\ SwappedOut.err = out.err
       /\ SwappedOut.treedefs = out.treedefs
       /\ SwappedOut.leafshapes = out.leafshapes
       /\ DOMAIN SwappedOut.leaves = DOMAIN out.leaves
       /\ out.err = "none" =>
            \A c \in DOMAIN out.leaves :
              /\ Len(out.calls[c]) = 2
              /\ out.calls[c][s] = tracers[s].leaves[<<>>]
              /\ SwappedOut.calls[c] = <<out.calls[c][2], out.calls[c][1]>>
              /\ out.leaves[c] = bind(params.prim, out.calls[c])
              /\ params.prim = "add" => SwappedOut.leaves[c] = out.leaves[c]

\* add(s, a) returned for a value a partitioned into two blocks
ScalarCommutesWitness ==
  /\ NaryDone
  /\ params.prim = "add"
  /\ Len(tracers) = 2
  /\ Structured = {2}
  /\ out.err = "none"
  /\ Cardinality(DOMAIN out.leaves) = 2

\* two structured operands whose descriptors and segment sequences are the
\* same on every axis
IdenticalStructure ==
  /\ NaryDone
  /\ Len(tracers) = 2
  /\ Structured = {1, 2}
  /\ Len(tracers[1].treedefs) = Len(tracers[2].treedefs)
  /\ \A k \in 1..Len(tracers[1].treedefs) :
       TreedefEq(tracers[1].treedefs[k], tracers[2].treedefs[k])
  /\ tracers[1].leafshapes = tracers[2].leafshapes

\* the rule returned the operands' structure and, at every coordinate, the
\* kernel of the two operand blocks at that coordinate
SameStructureOut ==
  /\ out.err = "none"
  /\ Len(out.treedefs) = Len(tracers[1].treedefs)
  /\ \A k \in 1..Len(tracers[1].treedefs) :
       TreedefEq(out.treedefs[k], tracers[1].treedefs[k])
  /\ out.leafshapes = tracers[1].leafshapes
  /\ DOMAIN out.leaves = DOMAIN tracers[1].leaves
  /\ \A c \in DOMAIN out.leaves :
       out.leaves[c] = bind(params.prim, <<tracers[1].leaves[c], tracers[2].leaves[c]>>)

\* an axis of operand i with one segment whose rank is not 1
SingleSegmentNotRank1(i) ==
  \E k \in 1..Len(tracers[i].leafshapes) :
    /\ Len(tracers[i].leafshapes[k]) = 1
    /\ Len(tracers[i].leafshapes[k][1]) # 1

\* C13 as stated: on two structured operands of identical structure, axes
\* with a single segment of rank 0 or 2 included, the rule succeeds with the
\* operands' descriptors and segments and blockwise kernel results.
IdenticalStructureAlways == IdenticalStructure => SameStructureOut

\* C13, what the rule does: it returns the operands' structure when no axis
\* is a single segment of rank other than 1; a single segment of rank 0 comes
\* back as the segment (1,) and one of rank 2 makes the split raise, so the
\* rule raises or returns segments that are not the operands' and that no
\* TreeTracer accepts.
IdenticalStructureRank1 ==
  IdenticalStructure =>
    IF ~SingleSegmentNotRank1(1) THEN SameStructureOut /\ tracer.err = "none"
    ELSE /\ out.err = "none" => out.leafshapes # tracers[1].leafshapes
         /\ out.err = "none" => tracer.err = "AssertionError"
         /\ out.err # "none" => tracer = NoOut

\* x + y for two converted bare scalars: the rule returned the segment (1,)
IdenticalScalarsWitness ==
  /\ IdenticalStructure
  /\ tracers[1].leafshapes = << << <<>> >> >>
  /\ out.err = "none"
  /\ out.leafshapes = << << <<1>> >> >>
  /\ tracer.err = "AssertionError"

\* every operand satisfies the assertions of TreeTracer.__init__
OperandsValid ==
  \A i \in 1..Len(tracers) :
    TreeTracer_err(tracers[i].treedefs, tracers[i].leafshapes, tracers[i].leaves) = "none"

\* the errors the n-ary rule declares
NaryDeclaredErrors == {"ConflictingStructure", "ConflictingShape", "ShapeMismatch"}

\* the returned axes and blocks pass the validation again: a block at every
\* coordinate of the product, of the shape its segments give, and every
\* block is the kernel's broadcast of its arguments
Revalidates ==
  /\ out.err = "none"
  /\ tracer.err = "none"
  /\ DOMAIN out.leaves = ToSet(_iter_leaf_coords(out.treedefs))
  /\ \A c \in DOMAIN out.leaves :
       /\ np_shape(out.leaves[c]) = _leafshape(out.leafshapes, c)
       /\ np_shape(out.leaves[c]) = broadcast_shape(Shapes(out.calls[c]))

\* C14 as stated: on operands that satisfy the invariants, the n-ary rule
\* either fails with ConflictingStructure, ConflictingShape or ShapeMismatch
\* and returns nothing, or returns axes and blocks that pass re-validation.
NoPartialFailure ==
  NaryDone /\ OperandsValid =>
    \/ out.err \in NaryDeclaredErrors /\ FailedWith(out.err)
    \/ Revalidates

\* a flat 3 x 3 array meets a value partitioned on both axes, no axis being
\* a single segment of rank other than 1: the rule raised KeyError
UndeclaredFailureWitness ==
  /\ NaryDone /\ OperandsValid
  /\ Cardinality(Structured) = 2
  /\ \A i \in Structured : ~SingleSegmentNotRank1(i)
  /\ tracers[1].leafshapes = << << <<3>> >>, << <<3>> >> >>
  /\ out.err = "KeyError"

\* the per-axis checks passed, so the rule went on to the split loop
ChecksPass ==
  /\ Structured # {}
  /\ out.err \notin {"ConflictingStructure", "ConflictingShape", "RankMismatch"}

\* the structured operands in order, and the layout the rule adopts per axis
StructuredOperands == SelectSeq(tracers, LAMBDA t : t.treedefs # <<>>)
AdoptedLayout ==
  [a \in 1..StructuredRank |->
     naryop_out_leafshape(leafshapes_of(StructuredOperands), a - 1)]

\* leafshapes_fixed and leaves_fixed of operand i after the split loop
Reconciled(i) ==
  naryop_fixed(tracers[i].leafshapes, tracers[i].leaves, AdoptedLayout)

\* the split loop replaced the layout of operand i on axis a
SplitObserved(i, a) ==
  Reconciled(i).leafshapes_[a + 1] # tracers[i].leafshapes[a + 1]

OwnLayout(i, a) == tracers[i].leafshapes[a + 1]

\* C15 as stated: an operand's axis is split to the adopted layout exactly
\* when its own layout differs from the adopted one and its axis length is
\* exactly 1.
SplitWhenLengthOne ==
  NaryDone /\ ChecksPass =>
    \A i \in Structured : \A a \in StructuredAxes :
      Reconciled(i).err = "none" =>
        (SplitObserved(i, a) <=>
           /\ OwnLayout(i, a) # AdoptedLayout[a + 1]
           /\ _axis_length(OwnLayout(i, a)) = 1)

\* C15 amended: an operand's axis is split to the adopted layout exactly
\* when its own layout differs from the adopted one and its axis length is
\* not 1; an axis whose layout is the adopted one, or whose length is 1,
\* keeps its layout, and the loop raises only if some axis had to be split.
SplitWhenLengthNotOne ==
  NaryDone /\ ChecksPass =>
    \A i \in Structured :
      /\ \A a \in StructuredAxes :
           Reconciled(i).err = "none" =>
             /\ SplitObserved(i, a) <=>
                  /\ OwnLayout(i, a) # AdoptedLayout[a + 1]
                  /\ _axis_length(OwnLayout(i, a)) # 1
             /\ SplitObserved(i, a) =>
                  Reconciled(i).leafshapes_[a + 1] = AdoptedLayout[a + 1]
      /\ Reconciled(i).err # "none" =>
           \E a \in StructuredAxes :
             /\ OwnLayout(i, a) # AdoptedLayout[a + 1]
             /\ _axis_length(OwnLayout(i, a)) # 1

\* a flat axis of length 3 was split into the two segments of the other
\* operand, and an axis of length 1 facing two segments was left alone
SplitWhenLengthNotOneWitness ==
  /\ NaryDone /\ ChecksPass
  /\ out.err = "none"
  /\ \E i \in Structured : \E a \in StructuredAxes :
       /\ OwnLayout(i, a) = << <<3>> >>
       /\ Len(AdoptedLayout[a + 1]) = 2
       /\ SplitObserved(i, a)
  /\ \E i \in Structured : \E a \in StructuredAxes :
       /\ OwnLayout(i, a) = << <<1>> >>
       /\ Len(AdoptedLayout[a + 1]) = 2
       /\ ~SplitObserved(i, a)

\* operand i after the split loop has a block at every coordinate of its
\* reconciled layout, each of the shape the reconciled segments give
ReconciledComplete(i) ==
  LET r == Reconciled(i)
  IN /\ DOMAIN r.leaves = ToSet(_iter_leaf_coords2(r.leafshapes_))
     /\ \A c \in DOMAIN r.leaves : np_shape(r.leaves[c]) = _leafshape(r.leafshapes_, c)

\* the axes of operand i that the split loop splits
SplitAxes(i) == {a \in StructuredAxes : SplitObserved(i, a)}

\* C16 as stated: after the reconciliation every structured operand has a
\* block at every coordinate of its reconciled layout, of the shape the
\* reconciled segments give, also when it is split along two axes, and the
\* lookup of a block per result coordinate never misses.
ReconciledBlocksEverywhere ==
  NaryDone /\ ChecksPass =>
    /\ \A i \in Structured : Reconciled(i).err = "none" => ReconciledComplete(i)
    /\ out.err # "KeyError"

\* C16, what the loop does: an operand split along at most one axis has all
\* its blocks; one split along two axes keeps only the pieces at index 0 of
\* the axis split first.
ReconciledOneSplit ==
  NaryDone /\ ChecksPass =>
    \A i \in Structured :
      Reconciled(i).err = "none" =>
        IF Cardinality(SplitAxes(i)) <= 1 THEN ReconciledComplete(i)
        ELSE DOMAIN Reconciled(i).leaves =
               {c \in ToSet(_iter_leaf_coords2(Reconciled(i).leafshapes_)) : c[1] = 0}

\* a flat 3 x 3 array was split along both axes to meet a value partitioned
\* on both, and the lookup of its block at (1, 0) raised KeyError
TwoSplitsWitness ==
  /\ NaryDone /\ ChecksPass
  /\ \E i \in Structured :
       /\ tracers[i].leafshapes = << << <<3>> >>, << <<3>> >> >>
       /\ Reconciled(i).err = "none"
       /\ SplitAxes(i) = {0, 1}
       /\ <<1, 0>> \notin DOMAIN Reconciled(i).leaves
  /\ out.err = "KeyError"

(***************************************************************************)
(* Specification SpecMix: an n-ary elementwise primitive on up to two      *)
(* structured operands mixed with up to MaxMixScalars rank-0 operands at   *)
(* any positions.                                                          *)
(***************************************************************************)
\* structured operands that the rule can combine
MixAxes ==
  { <<Axis(TRIVIAL_TREEDEF, << <<3>> >>)>>,
    <<Axis(TRIVIAL_TREEDEF, << <<1>> >>)>>,
    <<Axis(DictDef(<<"a", "b">>), << <<>>, <<2>> >>)>>,
    <<Axis(DictDef(<<"a", "b">>), << <<>>, <<2>> >>), Axis(TRIVIAL_TREEDEF, << <<2>> >>)>>,
    <<Axis(TRIVIAL_TREEDEF, << <<1>> >>), Axis(TRIVIAL_TREEDEF, << <<2>> >>)>> }

MixStructured ==
  {<<>>} \cup {<<Operand(a, 1)>> : a \in MixAxes}
    \cup {<<Operand(ab[1], 1), Operand(ab[2], 100)>> :
            ab \in {x \in MixAxes \X MixAxes : Len(x[1]) = Len(x[2])}}

InitMix ==
  /\ pc = "naryop"
  /\ tree = NoTree
  /\ \E ts \in MixStructured :
       tracers \in {t \in WithScalars(ts, MaxMixScalars) : Len(t) >= 1}
  /\ \E prim \in NaryPrims : params = [prim |-> prim]
  /\ out = NoOut
  /\ tracer = NoOut
  /\ restored = NoTree
  /\ lowered = NoOut

NextMix == Naryop

SpecMix == InitMix /\ [][NextMix]_vars

\* the elements of all blocks of operand i
OperandElements(i) ==
  UNION {{tracers[i].leaves[c].at[idx] : idx \in DOMAIN tracers[i].leaves[c].at}
         : c \in DOMAIN tracers[i].leaves}

\* every element of arg is an element of operand i
FromOperand(arg, i) == \A idx \in DOMAIN arg.at : arg.at[idx] \in OperandElements(i)

\* C17: for any number and positions of rank-0 operands, every kernel call
\* gets as many arguments as there are operands, argument i being the block
\* of operand i if that is rank 0 and otherwise taken from a block of operand
\* i; with only rank-0 operands the kernel is called once and the result has
\* rank 0 and one block at the empty coordinate.
ScalarReinsertion ==
  NaryDone =>
    IF Structured = {}
    THEN /\ out.err = "none"
         /\ out.treedefs = <<>> /\ out.leafshapes = <<>>
         /\ DOMAIN out.leaves = {<<>>}
         /\ DOMAIN out.calls = {<<>>}
         /\ out.calls[<<>>] = [i \in 1..Len(tracers) |-> tracers[i].leaves[<<>>]]
         /\ out.leaves[<<>>] = bind(params.prim, out.calls[<<>>])
         /\ tracer.err = "none"
    ELSE out.err = "none" =>
           \A c \in DOMAIN out.calls :
             /\ Len(out.calls[c]) = Len(tracers)
             /\ \A i \in 1..Len(tracers) :
                  IF i \in Structured THEN FromOperand(out.calls[c][i], i)
                  ELSE out.calls[c][i] = tracers[i].leaves[<<>>]
             /\ out.leaves[c] = bind(params.prim, out.calls[c])

\* two rank-0 operands before, between or after two structured ones, the
\* result partitioned into two blocks
ScalarReinsertionWitness ==
  /\ NaryDone
  /\ Len(tracers) = 4
  /\ Structured = {2, 4}
  /\ out.err = "none"
  /\ Cardinality(DOMAIN out.calls) = 2

\* three rank-0 operands and no other: one kernel call
AllScalarsWitness ==
  /\ NaryDone
  /\ Len(tracers) = 3
  /\ Structured = {}
  /\ DOMAIN out.leaves = {<<>>}

\* the greatest axis length of the structured operands on axis a
MaxAxisLength(a) == MaxLength(leafshapes_of(StructuredOperands), a)

\* operand i has, on axis a, a single rank-1 segment whose length is neither
\* 1 nor the greatest, and no operand has several segments there
MismatchedFlat(i, a) ==
  /\ MultiSegmentsOn(a) = {}
  /\ Len(OwnLayout(i, a)) = 1
  /\ Len(OwnLayout(i, a)[1]) = 1
  /\ OwnLayout(i, a)[1][1] \notin {1, MaxAxisLength(a)}

AnyMismatchedFlat == \E i \in Structured : \E a \in StructuredAxes : MismatchedFlat(i, a)

NeedsSplit(i, a) ==
  OwnLayout(i, a) # AdoptedLayout[a + 1] /\ _axis_length(OwnLayout(i, a)) # 1

\* the first split of the loop (operands in order, axes in order) is one of
\* a mismatched flat axis
FirstSplitMismatched ==
  \E i \in Structured : \E a \in StructuredAxes :
    /\ MismatchedFlat(i, a)
    /\ \A j \in Structured : \A b \in StructuredAxes :
         (j < i \/ (j = i /\ b < a)) => ~NeedsSplit(j, b)

FreshVectorAxes == {Axis(FreshLeafDef, << <<n>> >>) : n \in 1..MaxSize}

UnaryAxesChoices ==
  AxesChoices \cup {<<a>> : a \in FreshVectorAxes}
    \cup {<<a, b>> : a \in PlainAxes, b \in FreshVectorAxes}

UnaryOperands ==
  {ScalarOperand(5)} \cup {Operand(a, 1) : a \in UnaryAxesChoices}

\* lax.neg_p and xla.device_put_p, whose kernel is the identity
UnaryPrims == {"neg", "device_put"}

InitUnary ==
  /\ pc = "unary"
  /\ tree = NoTree
  /\ \E t \in UnaryOperands : tracers = <<t>>
  /\ \E prim \in UnaryPrims : params = [prim |-> prim]
  /\ out = NoOut
  /\ tracer = NoOut
  /\ restored = NoTree
  /\ lowered = NoOut

\* process_primitive for a primitive registered with defvectorized
Unary ==
  /\ pc = "unary"
  /\ out' = vectorized_tree_rule(params.prim, treedefs_of(tracers),
                                 leafshapes_of(tracers), leaves_of(tracers))
  /\ tracer' = wrap_result(out')
  /\ pc' = "lower"
  /\ UNCHANGED <<tree, tracers, params, restored, lowered>>

\* bind returns full_lower of the tracer process_primitive built
FullLower ==
  /\ pc = "lower"
  /\ tracer.err = "none"
  /\ lowered' = full_lower(tracer)
  /\ pc' = "done"
  /\ UNCHANGED <<tree, tracers, params, out, tracer, restored>>

NextUnary == Unary \/ FullLower

SpecUnary == InitUnary /\ [][NextUnary]_vars

(***************************************************************************)
(* Properties of the unary rule and of full_lower.                         *)
(***************************************************************************)
\* the coordinates a value with these segment sequences has blocks at
BlockCoords(leafshapes) ==
  ToSet(product([k \in 1..Len(leafshapes) |-> Len(leafshapes[k])]))

\* C7: the unary rule returns the operand's descriptors and segment
\* sequences, one block per tuple of partition indices, and the block at each
\* coordinate is the kernel applied, element by element, to the operand's
\* block at that coordinate; with the identity kernel the result equals the
\* operand.
UnaryRule ==
  pc \in {"lower", "done"} /\ params.prim \in UnaryPrims =>
    LET v == tracers[1]
    IN /\ out.err = "none"
       /\ out.treedefs = v.treedefs
       /\ out.leafshapes = v.leafshapes
       /\ DOMAIN out.leaves = BlockCoords(v.leafshapes)
       /\ \A c \in DOMAIN out.leaves :
            /\ out.calls[c] = <<v.leaves[c]>>
            /\ np_shape(out.leaves[c]) = np_shape(v.leaves[c])
            /\ \A idx \in Indices(np_shape(v.leaves[c])) :
                 out.leaves[c].at[idx] =
                   IF params.prim = "neg" THEN 0 - v.leaves[c].at[idx]
                   ELSE v.leaves[c].at[idx]
       /\ params.prim = "device_put" =>
            /\ out.leaves = v.leaves
            /\ tracer.err = "none"
            /\ TreeState(tracer.treedefs, tracer.leafshapes, tracer.leaves) = v

\* neg returned for an operand of rank 2 with four blocks
UnaryRuleWitness ==
  /\ pc = "done"
  /\ params.prim = "neg"
  /\ out.err = "none"
  /\ Len(out.treedefs) = 2
  /\ Cardinality(DOMAIN out.leaves) = 4
  /\ \E c \in DOMAIN out.leaves : np_ndim(out.leaves[c]) = 2

\* an axis is trivial: its treedef is the TRIVIAL_TREEDEF object and it has
\* one segment of rank 1
TrivialAxes(t) ==
  {k \in 1..Len(t.treedefs) :
     /\ t.treedefs[k].obj = TRIVIAL_TREEDEF.obj
     /\ t.treedefs[k].def = TRIVIAL_TREEDEF.def
     /\ Len(t.leafshapes[k]) = 1
     /\ Len(t.leafshapes[k][1]) = 1}

\* C10: full_lower returns the single block when every axis is trivial and
\* there is exactly one block, and the structured value itself when at least
\* one axis is not trivial.
TrivialityLowering ==
  pc = "done" /\ lowered # NoOut =>
    /\ (TrivialAxes(tracer) = 1..Len(tracer.treedefs)
          /\ Cardinality(DOMAIN tracer.leaves) = 1) =>
         /\ lowered.err = "none"
         /\ lowered.kind = "array"
         /\ \A c \in DOMAIN tracer.leaves : lowered.value = tracer.leaves[c]
    /\ TrivialAxes(tracer) # 1..Len(tracer.treedefs) =>
         /\ lowered.err = "none"
         /\ lowered.kind = "tracer"
         /\ lowered.value = tracer

\* a value of rank 2 with two plain axes was lowered to its block
TrivialityLoweringWitness ==
  /\ pc = "done"
  /\ lowered # NoOut
  /\ Len(tracer.treedefs) = 2
  /\ TrivialAxes(tracer) = {1, 2}
  /\ lowered.kind = "array"
  /\ np_shape(lowered.value) = <<2, 3>>

\* a value whose only axis has a treedef equal to TRIVIAL_TREEDEF, but not
\* that object, was returned as it is
NotLoweredWitness ==
  /\ pc = "done"
  /\ lowered # NoOut
  /\ Len(tracer.treedefs) = 1
  /\ TreedefEq(tracer.treedefs[1], TRIVIAL_TREEDEF)
  /\ tracer.leafshapes = << << <<3>> >> >>
  /\ lowered.kind = "tracer"

(***************************************************************************)
(* Specification SpecSplit: _split_leaves splits one axis of an operand    *)
(* into target segments, calling _split_leaf on every block.               *)
(***************************************************************************)
\* segment shapes of rank 0, 1 and 2 with at most MaxSize elements
Segments ==
  {<<>>} \cup {<<n>> : n \in 1..MaxSize}
    \cup {s \in {<<m, n>> : m \in 1..MaxSize, n \in 1..MaxSize} : prod(s) <= MaxSize}

\* the sequences of segments whose combined length is n
RECURSIVE SegmentSeqs(_)
SegmentSeqs(n) ==
  IF n = 0 THEN {<<>>}
  ELSE UNION {{<<s>> \o rest : rest \in SegmentSeqs(n - prod(s))} :
                s \in {t \in Segments : prod(t) <= n}}

\* operands and the axis to split: the axis is plain, a second axis, if
\* there is one, is plain or partitioned
SplitChoices ==
  {<<Operand(<<a>>, 1), 0>> : a \in PlainAxes}
    \cup {<<Operand(<<a, b>>, 1), 0>> : a \in PlainAxes, b \in PlainAxes \cup TreeAxes}
    \cup {<<Operand(<<b, a>>, 1), 1>> : a \in PlainAxes, b \in PlainAxes \cup TreeAxes}

InitSplit ==
  /\ pc = "split"
  /\ tree = NoTree
  /\ \E ch \in SplitChoices, shapes \in UNION {SegmentSeqs(n) : n \in 1..MaxSize} :
       /\ tracers = <<ch[1]>>
       /\ params = [axis |-> ch[2], shapes |-> shapes]
  /\ out = NoOut
  /\ tracer = NoOut
  /\ restored = NoTree
  /\ lowered = NoOut

\* _split_leaves(leafshapes, leaves, axis, shapes)
SplitLeaves ==
  /\ pc = "split"
  /\ LET v == tracers[1]
         e == _split_leaves_err(v.leafshapes, v.leaves, params.axis, params.shapes)
     IN out' = IF e # "none" THEN RuleErr(e)
               ELSE [err |-> "none",
                     leaves |-> _split_leaves(v.leafshapes, v.leaves,
                                              params.axis, params.shapes)]
  /\ pc' = "done"
  /\ UNCHANGED <<tree, tracers, params, tracer, restored, lowered>>

NextSplit == SplitLeaves

SpecSplit == InitSplit /\ [][NextSplit]_vars

(***************************************************************************)
(* Properties of splitting.                                                *)
(***************************************************************************)
\* the physical dimension of the block at coords that logical axis `axis`
\* starts at: the ranks of the segments of the axes before it
PhysicalAxis(leafshapes, coords, axis) ==
  SumSeq([k \in 1..axis |-> Len(item(leafshapes[k], coords[k]))])

\* the sizes of the segments before segment i (1-based)
SizesBefore(shapes, i) == SumSeq([j \in 1..(i - 1) |-> prod(shapes[j])])

\* the target segments' combined length is the extent of the split axis
SplitFits ==
  /\ pc = "done"
  /\ params.axis \in 0..(Len(tracers[1].leafshapes) - 1)
  /\ _axis_length(params.shapes) = _axis_length(tracers[1].leafshapes[params.axis + 1])

\* C9: splitting a block along a physical axis into target segments whose
\* combined length is the block's extent there gives one piece per segment,
\* in order; piece i has the segment's shape in place of the axis and holds
\* the prod(segment i) indices that start at the sizes of the segments before
\* it; the flattened pieces concatenated in order are the block.
SplitInverse ==
  SplitFits =>
    LET v == tracers[1]
        a == params.axis + 1
        shapes == params.shapes
    IN /\ out.err = "none"
       /\ DOMAIN out.leaves =
            {[c \in DOMAIN cc |-> IF c = a THEN i ELSE cc[c]] :
               cc \in BlockCoords(v.leafshapes), i \in 0..(Len(shapes) - 1)}
       /\ \A cc \in BlockCoords(v.leafshapes) :
            LET block == v.leaves[cc]
                p == PhysicalAxis(v.leafshapes, cc, params.axis)
                before == SubSeq(block.shape, 1, p)
                after == SubSeq(block.shape, p + 2, Len(block.shape))
                piece(i) == out.leaves[[cc EXCEPT ![a] = i - 1]]
                flat(i) == reshape(piece(i), before \o <<prod(shapes[i])>> \o after)
            IN /\ \A i \in 1..Len(shapes) :
                    /\ np_shape(piece(i)) = before \o shapes[i] \o after
                    /\ \A idx \in Indices(np_shape(flat(i))) :
                         flat(i).at[idx] =
                           block.at[[idx EXCEPT ![p + 1] = @ + SizesBefore(shapes, i)]]
               /\ concatenate([i \in 1..Len(shapes) |-> flat(i)], p) = block

\* an axis of length 3, second of two axes and behind a segment of rank 2, was
\* split into two segments of different sizes
SplitInverseWitness ==
  /\ SplitFits
  /\ out.err = "none"
  /\ params.axis = 1
  /\ Len(params.shapes) = 2
  /\ prod(params.shapes[1]) = 2
  /\ \E cc \in BlockCoords(tracers[1].leafshapes) :
       PhysicalAxis(tracers[1].leafshapes, cc, 1) = 2

(***************************************************************************)
(* Specification SpecConcat: process_primitive of lax.concatenate_p on one *)
(* or two operands of equal rank, along any of their axes.                 *)
(***************************************************************************)
ConcatTuples ==
  {<<Operand(a, 1)>> : a \in AxesChoices}
    \cup {<<Operand(ab[1], 1), Operand(ab[2], 100)>> :
            ab \in {x \in AxesChoices \X AxesChoices : Len(x[1]) = Len(x[2])}}

InitConcat ==
  /\ pc = "concatenate"
  /\ tree = NoTree
  /\ tracers \in ConcatTuples
  /\ \E d \in 0..(Len(tracers[1].treedefs) - 1) :
       params = [prim |-> "concatenate", dimension |-> d]
  /\ out = NoOut
  /\ tracer = NoOut
  /\ restored = NoTree
  /\ lowered = NoOut

\* process_primitive for lax.concatenate_p
Concatenate ==
  /\ pc = "concatenate"
  /\ out' = concatenate_tree_rule(treedefs_of(tracers), leafshapes_of(tracers),
                                  leaves_of(tracers), params.dimension)
  /\ tracer' = wrap_result(out')
  /\ pc' = "done"
  /\ UNCHANGED <<tree, tracers, params, restored, lowered>>

NextConcat == Concatenate

SpecConcat == InitConcat /\ [][NextConcat]_vars

(***************************************************************************)
(* Properties of concatenate.                                              *)
(***************************************************************************)
ConcatDone == pc = "done" /\ params.prim = "concatenate"

\* some operand has a non-TRIVIAL descriptor or more than one segment on the
\* concatenation axis
StructuredConcatAxis ==
  DescriptorsOn(params.dimension) # {} \/ MultiSegmentsOn(params.dimension) # {}

\* the loop over the axes gets past axis b: there is no conflict on it and,
\* with several operands, one of them has more than one segment there
AxisPasses(b) ==
  /\ ~AnyConflict(b)
  /\ Len(tracers) = 1 \/ MultiSegmentsOn(b) # {}

\* C6 as stated: a non-TRIVIAL descriptor or a multi-segment sequence on the
\* concatenation axis always makes the rule fail with InvalidConcatenateAxis.
ConcatAxisRestrictedAlways ==
  ConcatDone /\ StructuredConcatAxis => FailedWith("InvalidConcatenateAxis")

\* C6 amended: a non-TRIVIAL descriptor or a multi-segment sequence on the
\* concatenation axis makes the rule fail without a result; the error is
\* InvalidConcatenateAxis when every lower axis passes its own checks, and
\* otherwise the error of the lowest axis that does not.
ConcatAxisRestrictedFirstAxis ==
  ConcatDone /\ StructuredConcatAxis =>
    /\ out.err # "none"
    /\ FailedWith(out.err)
    /\ (\A b \in 0..(params.dimension - 1) : AxisPasses(b)) =>
         out.err = "InvalidConcatenateAxis"
    /\ (\E b \in 0..(params.dimension - 1) : ~AxisPasses(b)) =>
         out.err \in {"ConflictingStructure", "ConflictingShape", "UnpackError"}

\* two operands with one partitioned layout on axis 0 were concatenated along
\* axis 1, where one of them carries a container, and the rule raised
\* InvalidConcatenateAxis
ConcatAxisRestrictedWitness ==
  /\ ConcatDone
  /\ Len(tracers) = 2
  /\ params.dimension = 1
  /\ AxisPasses(0)
  /\ DescriptorsOn(1) # {}
  /\ FailedWith("InvalidConcatenateAxis")

\* on axis a no operand has more than one segment and all operands have the
\* same axis length
FlatCommonAxis(a) ==
  /\ MultiSegmentsOn(a) = {}
  /\ Cardinality({_axis_length(tracers[i].leafshapes[a + 1]) : i \in 1..Len(tracers)}) = 1

NonConcatAxes == StructuredAxes \ {params.dimension}

\* two or more operands of rank two or more, the concatenation axis plain,
\* every other axis with a common flat length and no two descriptors
FlatConcat ==
  /\ ConcatDone
  /\ Len(tracers) >= 2
  /\ StructuredRank >= 2
  /\ ~StructuredConcatAxis
  /\ \A a \in NonConcatAxes : FlatCommonAxis(a) /\ ~DescriptorConflict(a)

\* C19 as stated: for two or more operands of rank two or more whose other
\* axes have no multi-segment operand and a common length, concatenate
\* succeeds and each such result axis is a single segment of that length.
FlatConcatSucceeds ==
  FlatConcat =>
    /\ out.err = "none"
    /\ \A a \in NonConcatAxes :
         out.leafshapes[a + 1] = << <<_axis_length(tracers[1].leafshapes[a + 1])>> >>

\* C19, what the rule does: on such operands `size, = lengths` unpacks a list
\* of two lengths and the rule raises.
FlatConcatRaises == FlatConcat => FailedWith("UnpackError")

\* two flat 3 x 3 arrays were concatenated along axis 0 and the rule raised
FlatConcatWitness ==
  /\ FlatConcat
  /\ params.dimension = 0
  /\ \A i \in 1..2 : tracers[i].leafshapes = << << <<3>> >>, << <<3>> >> >>
  /\ \A i \in 1..2 : \A k \in 1..2 : TreedefIs(tracers[i].treedefs[k], TRIVIAL_TREEDEF)
  /\ FailedWith("UnpackError")

\* the physical dimension of the result block at coords that the
\* concatenation axis maps to: the dimensions of the axes before it
ConcatPhysicalDim(coords) ==
  SumSeq([k \in 1..params.dimension |-> Len(item(out.leafshapes[k], coords[k]))])

\* the elements of the arguments one after the other
RECURSIVE ElementsOfAll(_)
ElementsOfAll(args) ==
  IF args = <<>> THEN <<>> ELSE Elements(Head(args)) \o ElementsOfAll(Tail(args))

\* C20: when every operand has one segment and a TRIVIAL descriptor on the
\* concatenation axis, the result axis there is one TRIVIAL segment as long
\* as the operands' axis lengths together, and the block at each result
\* coordinate is the concatenation, in operand order, of the operands' blocks
\* at that coordinate along the physical dimension the axis maps to there.
ConcatAlongAxis ==
  ConcatDone /\ ~StructuredConcatAxis =>
    /\ out.err = "none" =>
         LET d == params.dimension
             lengths == [i \in 1..Len(tracers) |-> _axis_length(tracers[i].leafshapes[d + 1])]
         IN /\ TreedefIs(out.treedefs[d + 1], TRIVIAL_TREEDEF)
            /\ out.leafshapes[d + 1] = << <<SumSeq(lengths)>> >>
            /\ DOMAIN out.leaves = ToSet(_iter_leaf_coords(out.treedefs))
            /\ \A c \in DOMAIN out.leaves :
                 LET p == ConcatPhysicalDim(c)
                     args == out.calls[c]
                 IN /\ Len(args) = Len(tracers)
                    /\ \A i \in 1..Len(tracers) :
                         /\ FromOperand(args[i], i)
                         /\ c \in DOMAIN tracers[i].leaves
                              /\ (\A a \in NonConcatAxes :
                                    tracers[i].leafshapes[a + 1] = out.leafshapes[a + 1])
                              => args[i] = tracers[i].leaves[c]
                    /\ out.leaves[c] = concatenate(args, p)
                    /\ item(np_shape(out.leaves[c]), p) =
                         SumSeq([i \in 1..Len(args) |-> item(np_shape(args[i]), p)])
                    /\ p = 0 => Elements(out.leaves[c]) = ElementsOfAll(args)
    /\ StructuredRank = 1 /\ (\A i \in 1..Len(tracers) : ~SingleSegmentNotRank1(i)) =>
         out.err = "none" /\ tracer.err = "none"

\* two vectors of lengths 3 and 2 were concatenated into one of length 5
ConcatAlongAxisWitness ==
  /\ ConcatDone
  /\ Len(tracers) = 2
  /\ tracers[1].leafshapes = << << <<3>> >> >>
  /\ tracers[2].leafshapes = << << <<2>> >> >>
  /\ out.err = "none"
  /\ out.leafshapes = << << <<5>> >> >>
  /\ tracer.err = "none"

\* two values partitioned on axis 0 were concatenated along axis 1, block by
\* block
ConcatBlocksWitness ==
  /\ ConcatDone
  /\ Len(tracers) = 2
  /\ params.dimension = 1
  /\ out.err = "none"
  /\ Cardinality(DOMAIN out.leaves) = 2

(***************************************************************************)
(* Specification SpecBroadcast: process_primitive of lax.broadcast_in_dim_p*)
(* on one operand of rank 0 to 2, to a target shape of up to one more axis,*)
(* with increasing broadcast_dimensions as lax requires.                   *)
(***************************************************************************)
ShapeOperands == {ScalarOperand(5)} \cup {Operand(a, 1) : a \in AxesChoices}

\* the increasing tuples of r positions among n
IncreasingTuples(r, n) ==
  {t \in [1..r -> 0..(n - 1)] : \A i, j \in 1..r : i < j => t[i] < t[j]}

InitBroadcast ==
  /\ pc = "broadcast_in_dim"
  /\ tree = NoTree
  /\ \E t \in ShapeOperands : tracers = <<t>>
  /\ \E n \in Len(tracers[1].treedefs)..(Len(tracers[1].treedefs) + 1) :
       \E shape \in [1..n -> 1..MaxSize] :
         \E bdims \in IncreasingTuples(Len(tracers[1].treedefs), n) :
           params = [prim |-> "broadcast_in_dim", shape |-> shape,
                     broadcast_dimensions |-> bdims]
  /\ out = NoOut
  /\ tracer = NoOut
  /\ restored = NoTree
  /\ lowered = NoOut

\* process_primitive for lax.broadcast_in_dim_p
BroadcastInDim ==
  /\ pc = "broadcast_in_dim"
  /\ out' = broadcast_in_dim_tree_rule(treedefs_of(tracers), leafshapes_of(tracers),
                                       leaves_of(tracers), params.shape,
                                       params.broadcast_dimensions)
  /\ tracer' = wrap_result(out')
  /\ pc' = "done"
  /\ UNCHANGED <<tree, tracers, params, restored, lowered>>

NextBroadcast == BroadcastInDim

SpecBroadcast == InitBroadcast /\ [][NextBroadcast]_vars

BroadcastDone == pc = "done" /\ params.prim = "broadcast_in_dim"

\* operand axis i (1-based) is trivial: the TRIVIAL_TREEDEF object over one
\* segment of rank 1
TrivialOperandAxis(i) == i \in TrivialAxes(tracers[1])

\* the target size declared for operand axis i
TargetSize(i) == item(params.shape, params.broadcast_dimensions[i])

\* a non-trivial operand axis whose length is not its target size
ResizedStructure ==
  \E i \in 1..Len(tracers[1].treedefs) :
    ~TrivialOperandAxis(i) /\ _axis_length(tracers[1].leafshapes[i]) # TargetSize(i)

\* C21: the result has the target rank; operand axis k goes to position
\* broadcast_dimensions[k] with its descriptor; there a non-trivial axis keeps
\* its segments, and the rule fails if its length is not the target size, and
\* a trivial axis becomes one segment of the target size; every other target
\* axis is a new TRIVIAL axis of one segment of the target size; the block at
\* each coordinate is made from the operand block at the coordinate
\* restricted to the mapped positions.
BroadcastAxes ==
  BroadcastDone =>
    LET t == tracers[1]
        bd == params.broadcast_dimensions
        mapped == {bd[i] : i \in 1..Len(bd)}
    IN /\ ResizedStructure => out.err # "none" /\ FailedWith(out.err)
       /\ out.err = "none" =>
            /\ Len(out.treedefs) = Len(params.shape)
            /\ Len(out.leafshapes) = Len(params.shape)
            /\ \A i \in 1..Len(bd) :
                 /\ out.treedefs[bd[i] + 1] = t.treedefs[i]
                 /\ out.leafshapes[bd[i] + 1] =
                      IF TrivialOperandAxis(i) THEN << <<TargetSize(i)>> >>
                      ELSE t.leafshapes[i]
            /\ \A k \in 0..(Len(params.shape) - 1) :
                 k \notin mapped =>
                   /\ TreedefIs(out.treedefs[k + 1], TRIVIAL_TREEDEF)
                   /\ out.leafshapes[k + 1] = << <<item(params.shape, k)>> >>
            /\ DOMAIN out.leaves = ToSet(_iter_leaf_coords(out.treedefs))
            /\ \A c \in DOMAIN out.leaves :
                 /\ out.calls[c] = <<t.leaves[Select(c, bd)]>>
                 /\ np_shape(out.leaves[c]) = _leafshape(out.leafshapes, c)
                 /\ \A idx \in DOMAIN out.leaves[c].at :
                      out.leaves[c].at[idx] \in
                        {t.leaves[Select(c, bd)].at[j] : j \in DOMAIN t.leaves[Select(c, bd)].at}
            /\ tracer.err = "none"

\* a value partitioned into two blocks got a new leading axis of size 3 and
\* kept its segments on the axis sent to position 1
BroadcastAxesWitness ==
  /\ BroadcastDone
  /\ Len(tracers[1].treedefs) = 1
  /\ Len(tracers[1].leafshapes[1]) = 2
  /\ params.shape = <<3, 3>>
  /\ params.broadcast_dimensions = <<1>>
  /\ out.err = "none"
  /\ out.leafshapes = << << <<3>> >>, tracers[1].leafshapes[1] >>
  /\ Cardinality(DOMAIN out.leaves) = 2

\* a partitioned axis of length 3 was sent to a target of size 2 and the
\* rule raised
BroadcastResizeWitness ==
  /\ BroadcastDone
  /\ ResizedStructure
  /\ Len(tracers[1].leafshapes[1]) = 2
  /\ FailedWith("ResizeError")

(***************************************************************************)
(* Specification SpecSqueeze: process_primitive of lax.squeeze_p on one    *)
(* operand of rank 0 to 2, removing any set of its axes.                   *)
(***************************************************************************)
\* the increasing tuples of axes of a value of rank n
DimensionTuples(n) == UNION {IncreasingTuples(r, n) : r \in 0..n}

InitSqueeze ==
  /\ pc = "squeeze"
  /\ tree = NoTree
  /\ \E t \in ShapeOperands : tracers = <<t>>
  /\ \E dims \in DimensionTuples(Len(tracers[1].treedefs)) :
       params = [prim |-> "squeeze", dimensions |-> dims]
  /\ out = NoOut
  /\ tracer = NoOut
  /\ restored = NoTree
  /\ lowered = NoOut

\* process_primitive for lax.squeeze_p
Squeeze ==
  /\ pc = "squeeze"
  /\ out' = squeeze_tree_rule(treedefs_of(tracers), leafshapes_of(tracers),
                              leaves_of(tracers), params.dimensions)
  /\ tracer' = wrap_result(out')
  /\ pc' = "done"
  /\ UNCHANGED <<tree, tracers, params, restored, lowered>>

NextSqueeze == Squeeze

SpecSqueeze == InitSqueeze /\ [][NextSqueeze]_vars

SqueezeDone == pc = "done" /\ params.prim = "squeeze"

\* the axes named for removal (0-based)
Removed == ToSet(params.dimensions)

\* axis a of the operand has a TRIVIAL descriptor, one segment, of rank 1
TrivialByValue(a) ==
  /\ TreedefEq(tracers[1].treedefs[a + 1], TRIVIAL_TREEDEF)
  /\ Len(tracers[1].leafshapes[a + 1]) = 1
  /\ Len(tracers[1].leafshapes[a + 1][1]) = 1

\* axis a of the operand carries a container
ContainerAxis(a) == ~TreedefEq(tracers[1].treedefs[a + 1], TRIVIAL_TREEDEF)

\* some dimension of the one segment of axis a is not of size 1
WideSegment(a) ==
  \E k \in 1..Len(tracers[1].leafshapes[a + 1][1]) : tracers[1].leafshapes[a + 1][1][k] # 1

\* the result axes are the remaining axes in order, and each block is the
\* operand block without the physical dimensions of the removed axes
SqueezedResult ==
  LET t == tracers[1]
  IN /\ out.treedefs = Without(t.treedefs, Removed)
     /\ out.leafshapes = Without(t.leafshapes, Removed)
     /\ DOMAIN out.leaves = {Without(c, Removed) : c \in DOMAIN t.leaves}
     /\ \A c \in DOMAIN t.leaves :
          /\ out.calls[Without(c, Removed)] = <<t.leaves[c]>>
          /\ np_shape(out.leaves[Without(c, Removed)]) =
               _leafshape(Without(t.leafshapes, Removed), Without(c, Removed))
          /\ Elements(out.leaves[Without(c, Removed)]) = Elements(t.leaves[c])
     /\ tracer.err = "none"

\* C22 as stated: the rule fails with InvalidSqueezeAxis whenever an axis
\* named for removal is not trivial (TRIVIAL descriptor, one segment, of rank
\* 1), and otherwise returns the remaining axes and the squeezed blocks.
SqueezeRejectsNonTrivial ==
  SqueezeDone =>
    IF \E a \in Removed : ~TrivialByValue(a) THEN FailedWith("InvalidSqueezeAxis")
    ELSE out.err = "none" => SqueezedResult

\* C22 amended: the rule fails with InvalidSqueezeAxis exactly when an axis
\* named for removal has a descriptor other than TRIVIAL; the rank of the one
\* segment of a TRIVIAL axis is not checked, so a segment of rank 0 is
\* removed and one with a dimension of size other than 1 makes the squeeze
\* kernel raise; when the rule returns, the result axes are the remaining
\* axes in order and each block is the operand block without the removed
\* axes' physical dimensions.
SqueezeRejectsContainers ==
  SqueezeDone =>
    /\ (\E a \in Removed : ContainerAxis(a)) <=> out.err = "InvalidSqueezeAxis"
    /\ out.err = "InvalidSqueezeAxis" => FailedWith(out.err)
    /\ (\A a \in Removed : ~ContainerAxis(a)) =>
         /\ (\E a \in Removed : WideSegment(a)) <=> FailedWith("SqueezeError")
         /\ (\A a \in Removed : ~WideSegment(a)) <=> out.err = "none"
    /\ out.err = "none" => SqueezedResult

\* the axis of a container was named for removal next to a plain axis of
\* size 1, and the rule raised InvalidSqueezeAxis
SqueezeRejectsWitness ==
  /\ SqueezeDone
  /\ Len(tracers[1].treedefs) = 2
  /\ params.dimensions = <<0, 1>>
  /\ ContainerAxis(0)
  /\ TrivialByValue(1) /\ ~WideSegment(1)
  /\ FailedWith("InvalidSqueezeAxis")

\* an axis whose one segment has rank 0 was removed
SqueezeScalarSegmentWitness ==
  /\ SqueezeDone
  /\ Len(tracers[1].treedefs) = 2
  /\ params.dimensions = <<0>>
  /\ tracers[1].leafshapes[1] = << <<>> >>
  /\ out.err = "none"
  /\ Len(out.treedefs) = 1
  /\ tracer.err = "none"

(***************************************************************************)
(* Specification SpecTranspose: process_primitive of lax.transpose_p on    *)
(* one operand of rank 0 to 3, under every permutation of its axes.        *)
(***************************************************************************)
\* the permutations of the axes of a value of rank n
PermutationTuples(n) == {p \in [1..n -> 0..(n - 1)] : ToSet(p) = 0..(n - 1)}

TransposeOperands ==
  ShapeOperands \cup
  {Operand(<<a, b, Axis(TRIVIAL_TREEDEF, << <<2>> >>)>>, 1) :
     a \in TreeAxes, b \in SecondAxisChoices}

InitTranspose ==
  /\ pc = "transpose"
  /\ tree = NoTree
  /\ \E t \in TransposeOperands : tracers = <<t>>
  /\ \E p \in PermutationTuples(Len(tracers[1].treedefs)) :
       params = [prim |-> "transpose", permutation |-> p]
  /\ out = NoOut
  /\ tracer = NoOut
  /\ restored = NoTree
  /\ lowered = NoOut

\* process_primitive for lax.transpose_p
Transpose ==
  /\ pc = "transpose"
  /\ out' = transpose_tree_rule(treedefs_of(tracers), leafshapes_of(tracers),
                                leaves_of(tracers), params.permutation)
  /\ tracer' = wrap_result(out')
  /\ pc' = "done"
  /\ UNCHANGED <<tree, tracers, params, restored, lowered>>

NextTranspose == Transpose

SpecTranspose == InitTranspose /\ [][NextTranspose]_vars

TransposeDone == pc = "done" /\ params.prim = "transpose"

\* the tuple t in permuted order
Permuted(t) == [k \in 1..Len(params.permutation) |-> item(t, params.permutation[k])]

\* the result axes are the operand axes in permuted order and the block at
\* input coordinate c is stored at the permuted coordinate, each output
\* coordinate being written once
TransposeAxes ==
  TransposeDone =>
    /\ out.err = "none"
    /\ out.treedefs = Permuted(tracers[1].treedefs)
    /\ out.leafshapes = Permuted(tracers[1].leafshapes)
    /\ DOMAIN out.leaves = {Permuted(c) : c \in DOMAIN tracers[1].leaves}
    /\ Cardinality(DOMAIN out.leaves) = Cardinality(DOMAIN tracers[1].leaves)
    /\ \A c \in DOMAIN tracers[1].leaves : out.calls[Permuted(c)] = <<tracers[1].leaves[c]>>

\* C23: under every permutation of the logical axes the result axes are the
\* operand axes in permuted order, the block at input coordinate c is stored
\* at the permuted coordinate, and its physical dimensions are permuted so
\* that its shape is the concatenation of the permuted axes' segments at the
\* output coordinate.
TransposeBlocks ==
  TransposeDone =>
    /\ out.err = "none"
    /\ out.treedefs = Permuted(tracers[1].treedefs)
    /\ out.leafshapes = Permuted(tracers[1].leafshapes)
    /\ DOMAIN out.leaves = {Permuted(c) : c \in DOMAIN tracers[1].leaves}
    /\ \A c \in DOMAIN tracers[1].leaves :
         /\ np_shape(out.leaves[Permuted(c)]) =
              _leafshape(Permuted(tracers[1].leafshapes), Permuted(c))
         /\ out.leaves[Permuted(c)] =
              lax_transpose(tracers[1].leaves[c],
                            transpose_leaf_perm_ordered(tracers[1].leafshapes, c,
                                                        params.permutation))
    /\ tracer.err = "none"

\* a (2,3)-shaped block of a rank-2 value is stored with shape (2,3) under
\* permutation (1,0), next to result segments (3,) and (2,)
TransposeShapeWitness ==
  /\ TransposeDone
  /\ params.permutation = <<1, 0>>
  /\ tracers[1].treedefs = <<TRIVIAL_TREEDEF, TRIVIAL_TREEDEF>>
  /\ tracers[1].leafshapes = << << <<2>> >>, << <<3>> >> >>
  /\ out.err = "none"
  /\ out.leafshapes = << << <<3>> >>, << <<2>> >> >>
  /\ np_shape(out.leaves[<<0, 0>>]) = <<2, 3>>
  /\ tracer.err = "AssertionError"

\* a (3,3)-shaped block is returned unchanged under permutation (1,0)
TransposeSquareWitness ==
  /\ TransposeDone
  /\ params.permutation = <<1, 0>>
  /\ tracers[1].leafshapes = << << <<3>> >>, << <<3>> >> >>
  /\ out.err = "none"
  /\ out.leaves[<<0, 0>>] = tracers[1].leaves[<<0, 0>>]
  /\ out.leaves[<<0, 0>>] # lax_transpose(tracers[1].leaves[<<0, 0>>], <<1, 0>>)
  /\ tracer.err = "none"

(***************************************************************************)
(* Specification SpecReduce: bind of a reduction primitive on one operand  *)
(* over any of its axes, then full_lower of the resulting tracer.          *)
(***************************************************************************)
\* {'x': 1.0, 'y': [2.0], 'z': [[3.0, 4.0]]} and a tree of the same shape
\* whose largest element comes first
XYZ(x, y, z1, z2) ==
  Dict(<<"x", "y", "z">>,
       <<Leaf(Scalar(x, "float")),
         Leaf(Array(<<1>>, "float", [idx \in Indices(<<1>>) |-> y])),
         Leaf(Array(<<1, 2>>, "float",
                    [idx \in Indices(<<1, 2>>) |-> IF idx[2] = 0 THEN z1 ELSE z2]))>>)

TreeOperands ==
  {convert_vectorized_tree(XYZ(1, 2, 3, 4)), convert_vectorized_tree(XYZ(4, 2, 3, 1))}

ReduceOperands == UnaryOperands \cup TreeOperands

\* the tuples of distinct axes of a value of rank n
AxesTuples(n) ==
  UNION {{t \in [1..k -> 0..(n - 1)] : \A i, j \in 1..k : t[i] = t[j] => i = j} :
           k \in 0..n}

ReducePrims == {"reduce_sum", "reduce_max"}

InitReduce ==
  /\ pc = "reduce"
  /\ tree = NoTree
  /\ \E t \in ReduceOperands : tracers = <<t>>
  /\ \E prim \in ReducePrims, axes \in AxesTuples(Len(tracers[1].treedefs)) :
       params = [prim |-> prim, axes |-> axes]
  /\ out = NoOut
  /\ tracer = NoOut
  /\ restored = NoTree
  /\ lowered = NoOut

\* process_primitive for a primitive registered with defreducer
Reduce ==
  /\ pc = "reduce"
  /\ out' = reducer_tree_rule(params.prim, binop_of(params.prim), treedefs_of(tracers),
                              leafshapes_of(tracers), leaves_of(tracers), params.axes)
  /\ tracer' = wrap_result(out')
  /\ pc' = "lower"
  /\ UNCHANGED <<tree, tracers, params, restored, lowered>>

NextReduce == Reduce \/ FullLower

SpecReduce == InitReduce /\ [][NextReduce]_vars

(***************************************************************************)
(* Properties of reductions.                                               *)
(***************************************************************************)
ReduceDone == pc \in {"lower", "done"} /\ params.prim \in ReducePrims

\* every element of every block of v, block by block
AllElements(v) ==
  LET cs == product([k \in 1..Len(v.leafshapes) |-> Len(v.leafshapes[k])])
  IN _concat_tuple([k \in 1..Len(cs) |-> Elements(v.leaves[cs[k]])])

\* C4: a value reduced over all of its logical axes has rank 0 and one block,
\* at the empty coordinate; with the sum combiner the block is the sum of
\* every element of every input block, with max the largest of them.
ReduceAll ==
  ReduceDone /\ ToSet(params.axes) = 0..(Len(tracers[1].treedefs) - 1) =>
    /\ out.err = "none"
    /\ out.treedefs = <<>>
    /\ out.leafshapes = <<>>
    /\ DOMAIN out.leaves = {<<>>}
    /\ np_shape(out.leaves[<<>>]) = <<>>
    /\ params.prim = "reduce_sum" =>
         out.leaves[<<>>].at[<<>>] = SumSeq(AllElements(tracers[1]))
    /\ params.prim = "reduce_max" =>
         /\ \A k \in 1..Len(AllElements(tracers[1])) :
              AllElements(tracers[1])[k] <= out.leaves[<<>>].at[<<>>]
         /\ \E k \in 1..Len(AllElements(tracers[1])) :
              AllElements(tracers[1])[k] = out.leaves[<<>>].at[<<>>]
    /\ pc = "done" => lowered = [err |-> "none", kind |-> "array",
                                 value |-> out.leaves[<<>>]]

\* the sum of blocks 1, [2], [[3, 4]] was returned as the plain scalar 10
ReduceAllWitness ==
  /\ ReduceDone
  /\ pc = "done"
  /\ params.prim = "reduce_sum"
  /\ params.axes = <<0>>
  /\ tracers[1] = convert_vectorized_tree(XYZ(1, 2, 3, 4))
  /\ lowered.kind = "array"
  /\ lowered.value.at[<<>>] = 10

\* the maximum of blocks 4, [2], [[3, 1]] was returned as the plain scalar 4
ReduceMaxWitness ==
  /\ ReduceDone
  /\ pc = "done"
  /\ params.prim = "reduce_max"
  /\ tracers[1] = convert_vectorized_tree(XYZ(4, 2, 3, 1))
  /\ lowered.kind = "array"
  /\ lowered.value.at[<<>>] = 4

\* the axes reduced over (0-based)
ReducedAxes == ToSet(params.axes)

\* the input coordinates that drop to the output coordinate k
ContributorsOf(k) == {c \in DOMAIN tracers[1].leaves : Without(c, ReducedAxes) = k}

\* the physical dimensions, in the block at coordinate c, of the reduced axes
ReducedDimsAt(c) ==
  LET rank(a) == Len(item(tracers[1].leafshapes[a + 1], c[a + 1]))
      offset(a) == SumSeq([j \in 1..a |-> rank(j - 1)])
  IN UNION {{offset(a) + j : j \in 0..(rank(a) - 1)} : a \in ReducedAxes}

\* y is the block at coordinate c reduced over exactly ReducedDimsAt(c)
PartiallyReduced(y, c) ==
  LET x == tracers[1].leaves[c]
  IN /\ np_shape(y) = Without(np_shape(x), ReducedDimsAt(c))
     /\ \A idx \in Indices(np_shape(y)) :
          y.at[idx] = apply_prim(binop_of(params.prim), ReducedInto(x, ReducedDimsAt(c), idx))

\* the product of the partition counts of the reduced axes
ReducedPartitions ==
  Cardinality({c \in DOMAIN tracers[1].leaves :
                 \A a \in 0..(Len(c) - 1) : a \notin ReducedAxes => c[a + 1] = 0})

\* C24: reducing over a subset of the axes leaves the other axes in their
\* order; every input coordinate contributes one block, reduced over exactly
\* the physical dimensions of the reduced axes at that coordinate, to the
\* output coordinate without the reduced axes' indices; every output
\* coordinate receives as many contributions as the product of the reduced
\* axes' partition counts, folded with the binary combiner, and its block
\* has the shape of the remaining segments.
ReduceSubset ==
  ReduceDone =>
    /\ out.err = "none"
    /\ out.treedefs = Without(tracers[1].treedefs, ReducedAxes)
    /\ out.leafshapes = Without(tracers[1].leafshapes, ReducedAxes)
    /\ DOMAIN out.leaves = ToSet(_iter_leaf_coords(out.treedefs))
    /\ DOMAIN out.leaves = {Without(c, ReducedAxes) : c \in DOMAIN tracers[1].leaves}
    /\ \A k \in DOMAIN out.leaves :
         /\ Len(out.calls[k]) = ReducedPartitions
         /\ \E f \in [ContributorsOf(k) -> 1..Len(out.calls[k])] :
              /\ \A c, d \in ContributorsOf(k) : f[c] = f[d] => c = d
              /\ \A c \in ContributorsOf(k) : PartiallyReduced(out.calls[k][f[c]], c)
         /\ np_shape(out.leaves[k]) = _leafshape(out.leafshapes, k)
         /\ \A idx \in Indices(np_shape(out.leaves[k])) :
              out.leaves[k].at[idx] =
                apply_prim(binop_of(params.prim),
                           [j \in 1..Len(out.calls[k]) |-> out.calls[k][j].at[idx]])
    /\ tracer.err = "none"

\* a value of two container axes of two segments each was summed over its
\* first axis: both blocks of the result fold two contributions
ReduceSubsetWitness ==
  /\ ReduceDone
  /\ params.prim = "reduce_sum"
  /\ params.axes = <<0>>
  /\ Len(tracers[1].treedefs) = 2
  /\ Len(tracers[1].leafshapes[1]) = 2
  /\ Len(tracers[1].leafshapes[2]) = 2
  /\ tracers[1].leafshapes[1][2] = <<1, 2>>
  /\ out.err = "none"
  /\ DOMAIN out.leaves = {<<0>>, <<1>>}
  /\ \A k \in DOMAIN out.leaves : Len(out.calls[k]) = 2
  /\ np_shape(out.leaves[<<1>>]) = <<2>>

\* the same value summed over both axes folds four contributions
ReduceBothWitness ==
  /\ ReduceDone
  /\ Len(params.axes) = 2
  /\ Len(tracers[1].leafshapes[1]) = 2
  /\ Len(tracers[1].leafshapes[2]) = 2
  /\ out.err = "none"
  /\ Len(out.calls[<<>>]) = 4

(***************************************************************************)
(* Specification SpecDot: bind of lax.dot_general_p on two operands of     *)
(* rank 1 to 3, for any contracting and batch axes, then full_lower of the *)
(* resulting tracer.                                                       *)
(***************************************************************************)
\* a container axis both of whose segments have the same shape
TwinAxis == Axis(DictDef(<<"a", "b">>), << <<2>>, <<2>> >>)

DotFirstAxes ==
  { Axis(TRIVIAL_TREEDEF, << <<2>> >>),
    Axis(DictDef(<<"a", "b">>), << <<>>, <<2>> >>),
    Axis(DictDef(<<"c", "d">>), << <<>>, <<2>> >>) }

DotOperands ==
  {Operand(<<a>>, 1) : a \in PlainAxes \cup TreeAxes \cup {TwinAxis}}
    \cup {Operand(<<a, b>>, 1) : a \in DotFirstAxes, b \in SecondAxisChoices}
    \cup {Operand(<<TwinAxis, TwinAxis>>, 1), Operand(<<TwinAxis, TwinAxis, TwinAxis>>, 1)}
    \cup TreeOperands

Reversed(t) == [k \in 1..Len(t) |-> t[Len(t) + 1 - k]]

\* dimension_numbers for operands of ranks m and n: contracting axes paired
\* one to one, batch axes apart from them; rhs_batch is lhs_batch or, which
\* the rule does not accept, lhs_batch in another order
DimensionNumbers(m, n) ==
  {[lhs_contracting |-> lc, rhs_contracting |-> rc, lhs_batch |-> b, rhs_batch |-> rb] :
     lc \in AxesTuples(m), rc \in AxesTuples(n), b \in AxesTuples(m), rb \in AxesTuples(n)}

ValidDimensionNumbers(m, n) ==
  {dn \in DimensionNumbers(m, n) :
     /\ Len(dn.lhs_contracting) = Len(dn.rhs_contracting)
     /\ ToSet(dn.lhs_batch) \cap (ToSet(dn.lhs_contracting) \cup ToSet(dn.rhs_contracting)) = {}
     /\ dn.rhs_batch \in {dn.lhs_batch, Reversed(dn.lhs_batch)}}

InitDot ==
  /\ pc = "dot_general"
  /\ tree = NoTree
  /\ \E lhs \in DotOperands, rhs \in DotOperands : tracers = <<lhs, rhs>>
  /\ \E dn \in ValidDimensionNumbers(Len(tracers[1].treedefs), Len(tracers[2].treedefs)) :
       params = [prim |-> "dot_general", dimension_numbers |-> dn]
  /\ out = NoOut
  /\ tracer = NoOut
  /\ restored = NoTree
  /\ lowered = NoOut

\* process_primitive for lax.dot_general_p
DotGeneral ==
  /\ pc = "dot_general"
  /\ out' = dot_general_tree_rule(treedefs_of(tracers), leafshapes_of(tracers),
                                  leaves_of(tracers), params.dimension_numbers)
  /\ tracer' = wrap_result(out')
  /\ pc' = "lower"
  /\ UNCHANGED <<tree, tracers, params, restored, lowered>>

NextDot == DotGeneral \/ FullLower

SpecDot == InitDot /\ [][NextDot]_vars

(***************************************************************************)
(* Properties of the contraction.                                          *)
(***************************************************************************)
DotDone == pc \in {"lower", "done"} /\ params.prim = "dot_general"

\* the sum of the products of the elements of x and y, position by position
InnerProduct(x, y) == SumSeq([k \in 1..Len(x) |-> x[k] * y[k]])

\* two rank-1 operands with the same descriptor and segments, contracted over
\* their axis, no batch axes
VectorContraction ==
  /\ DotDone
  /\ Len(tracers[1].treedefs) = 1
  /\ Len(tracers[2].treedefs) = 1
  /\ tracers[1].treedefs[1].def = tracers[2].treedefs[1].def
  /\ tracers[1].leafshapes = tracers[2].leafshapes
  /\ params.dimension_numbers =
       [lhs_contracting |-> <<0>>, rhs_contracting |-> <<0>>,
        lhs_batch |-> <<>>, rhs_batch |-> <<>>]

\* C5: the contraction of two rank-1 operands with the same descriptor and
\* segments over their axis has rank 0 and one block, at the empty
\* coordinate: the sum, over the partition indices i, of the inner product of
\* left block i with right block i, which is the inner product of the two
\* logical vectors.
ContractVectors ==
  VectorContraction =>
    LET lhs == tracers[1]
        rhs == tracers[2]
        n == Len(lhs.leafshapes[1])
    IN /\ out.err = "none"
       /\ out.treedefs = <<>>
       /\ out.leafshapes = <<>>
       /\ DOMAIN out.leaves = {<<>>}
       /\ np_shape(out.leaves[<<>>]) = <<>>
       /\ Len(out.calls[<<>>]) = n
       /\ \A i \in 1..n :
            /\ np_shape(out.calls[<<>>][i]) = <<>>
            /\ out.calls[<<>>][i].at[<<>>] =
                 InnerProduct(Elements(lhs.leaves[<<i - 1>>]),
                              Elements(rhs.leaves[<<i - 1>>]))
       /\ out.leaves[<<>>].at[<<>>] = InnerProduct(AllElements(lhs), AllElements(rhs))
       /\ pc = "done" => lowered = [err |-> "none", kind |-> "array",
                                    value |-> out.leaves[<<>>]]

\* the contraction of blocks 1, [2], [[3, 4]] with themselves was returned as
\* the plain scalar 30
ContractVectorsWitness ==
  /\ VectorContraction
  /\ pc = "done"
  /\ tracers[1] = convert_vectorized_tree(XYZ(1, 2, 3, 4))
  /\ tracers[2] = tracers[1]
  /\ lowered.kind = "array"
  /\ lowered.value.at[<<>>] = 30

\* lhs_batch and rhs_batch are one tuple, which the rule requires
SameBatch == params.dimension_numbers.lhs_batch = params.dimension_numbers.rhs_batch

\* the pairs (lhs axis, rhs axis) the rule aligns: batch pairs, then
\* contracting pairs
AlignedPairs ==
  LET dn == params.dimension_numbers
  IN [i \in 1..Len(dn.lhs_batch) |-> <<dn.lhs_batch[i], dn.rhs_batch[i]>>]
       \o [i \in 1..Len(dn.lhs_contracting) |-> <<dn.lhs_contracting[i], dn.rhs_contracting[i]>>]

\* the operands' descriptors differ on the pair of axes p
DescriptorsDiffer(p) ==
  ~TreedefEq(tracers[1].treedefs[p[1] + 1], tracers[2].treedefs[p[2] + 1])

\* the operands' segment sequences differ on the pair of axes p
SegmentsDiffer(p) == tracers[1].leafshapes[p[1] + 1] # tracers[2].leafshapes[p[2] + 1]

\* pair k is the first of the aligned pairs on which the operands differ
FirstDifference(k) ==
  /\ DescriptorsDiffer(AlignedPairs[k]) \/ SegmentsDiffer(AlignedPairs[k])
  /\ \A j \in 1..(k - 1) :
       ~DescriptorsDiffer(AlignedPairs[j]) /\ ~SegmentsDiffer(AlignedPairs[j])

\* C25 as stated: for every contracting pair and every batch pair, different
\* descriptors make the rule fail with ConflictingStructure and different
\* segment sequences (under one descriptor) with ConflictingShape.
DotConflictAlways ==
  DotDone /\ SameBatch =>
    \A k \in 1..Len(AlignedPairs) :
      /\ DescriptorsDiffer(AlignedPairs[k]) => FailedWith("ConflictingStructure")
      /\ ~DescriptorsDiffer(AlignedPairs[k]) /\ SegmentsDiffer(AlignedPairs[k]) =>
           FailedWith("ConflictingShape")

\* C25 amended: when the operands differ on some batch or contracting pair
\* the rule fails without a result and without broadcasting; the error is
\* that of the first such pair, batch pairs before contracting pairs in
\* their declared order: ConflictingStructure if the descriptors differ on
\* it, else ConflictingShape.  When they differ on no pair neither error is
\* raised.
DotConflictFirstPair ==
  DotDone /\ SameBatch =>
    /\ \A k \in 1..Len(AlignedPairs) :
         FirstDifference(k) =>
           /\ FailedWith(out.err)
           /\ DescriptorsDiffer(AlignedPairs[k]) => out.err = "ConflictingStructure"
           /\ ~DescriptorsDiffer(AlignedPairs[k]) => out.err = "ConflictingShape"
    /\ (\A k \in 1..Len(AlignedPairs) : ~FirstDifference(k)) =>
         out.err \notin {"ConflictingStructure", "ConflictingShape"}

\* the first contracting pair meets segments (2,) and (3,) under the TRIVIAL
\* descriptor, the second a container and a plain axis: the rule raised
\* ConflictingShape
DotConflictWitness ==
  /\ DotDone
  /\ SameBatch
  /\ Len(AlignedPairs) = 2
  /\ ~DescriptorsDiffer(AlignedPairs[1]) /\ SegmentsDiffer(AlignedPairs[1])
  /\ DescriptorsDiffer(AlignedPairs[2])
  /\ FailedWith("ConflictingShape")

\* a contracting pair meets the segments (1,) and (3,) of two plain axes: the
\* rule raised ConflictingShape and did not broadcast
DotNoBroadcastWitness ==
  /\ DotDone
  /\ Len(AlignedPairs) = 1
  /\ tracers[1].leafshapes[AlignedPairs[1][1] + 1] = << <<1>> >>
  /\ tracers[2].leafshapes[AlignedPairs[1][2] + 1] = << <<3>> >>
  /\ FailedWith("ConflictingShape")

\* a batch pair meets two different containers: the rule raised
\* ConflictingStructure
DotBatchConflictWitness ==
  /\ DotDone
  /\ SameBatch
  /\ Len(params.dimension_numbers.lhs_batch) = 1
  /\ FirstDifference(1)
  /\ DescriptorsDiffer(AlignedPairs[1])
  /\ FailedWith("ConflictingStructure")

\* the axes of the right operand that are neither contracting nor batch
RhsRemaining ==
  Remaining(Len(tracers[2].treedefs),
            ToSet(params.dimension_numbers.rhs_contracting)
              \cup ToSet(params.dimension_numbers.rhs_batch))

\* the coordinate of the right block the rule derives for the left block at
\* l and the enumerated remaining coordinate r
RhsCoordsOf(l, r) ==
  dot_rhs_coords(l, r, params.dimension_numbers.lhs_batch,
                 params.dimension_numbers.lhs_contracting,
                 params.dimension_numbers.rhs_contracting)

\* the pairs (l, r) the two loops of the rule enumerate
Invocations ==
  (DOMAIN tracers[1].leaves)
    \X ToSet(_iter_leaf_coords(Select(tracers[2].treedefs, RhsRemaining)))

\* rc equals l at each contracting and batch pair and r at the remaining axes
PairedCoords(l, r, rc) ==
  LET dn == params.dimension_numbers
  IN /\ Len(rc) = Len(tracers[2].treedefs)
     /\ \A i \in 1..Len(dn.lhs_contracting) :
          rc[dn.rhs_contracting[i] + 1] = l[dn.lhs_contracting[i] + 1]
     /\ \A i \in 1..Len(dn.lhs_batch) : rc[dn.rhs_batch[i] + 1] = l[dn.lhs_batch[i] + 1]
     /\ \A j \in 1..Len(RhsRemaining) : rc[RhsRemaining[j] + 1] = r[j]

\* C26: in every kernel invocation of the contraction rule, for contracting
\* pairs in any order and any batch pairs, the right block's coordinate
\* equals the left block's coordinate at each contracting and batch pair and
\* the enumerated remaining coordinate at each remaining right axis.
DotCoordinates ==
  DotDone /\ out.err = "none" =>
    \A inv \in Invocations : PairedCoords(inv[1], inv[2], RhsCoordsOf(inv[1], inv[2]))

\* there are no batch axes and the contracting pairs are declared by
\* ascending right axis
AscendingNoBatch ==
  LET dn == params.dimension_numbers
  IN /\ dn.lhs_batch = <<>>
     /\ \A i, j \in 1..Len(dn.rhs_contracting) :
          i < j => dn.rhs_contracting[i] < dn.rhs_contracting[j]

\* without batch axes and with contracting pairs declared by ascending right
\* axis, the derived coordinates are the paired ones
DotCoordinatesAscending ==
  DotDone /\ out.err = "none" /\ AscendingNoBatch =>
    \A inv \in Invocations : PairedCoords(inv[1], inv[2], RhsCoordsOf(inv[1], inv[2]))

\* batch axis 0 and contracting axis 1 of the right operand, whose axis 2
\* remains: the right coordinate holds the contracting index at axis 2
DotBatchedMatmulWitness ==
  /\ DotDone
  /\ tracers[1] = Operand(<<TwinAxis, TwinAxis, TwinAxis>>, 1)
  /\ tracers[2] = tracers[1]
  /\ params.dimension_numbers =
       [lhs_contracting |-> <<2>>, rhs_contracting |-> <<1>>,
        lhs_batch |-> <<0>>, rhs_batch |-> <<0>>]
  /\ RhsCoordsOf(<<0, 0, 1>>, <<0>>) = <<0, 0, 1>>
  /\ out.err = "none"
  /\ tracer.err = "none"

\* contracting axis 0 with axis 0 under batch axis 1: the left block (0,1)
\* was multiplied with the right block (0,0) and the rule returned
DotBatchCoordinateWitness ==
  /\ DotDone
  /\ tracers[1] = Operand(<<TwinAxis, TwinAxis>>, 1)
  /\ tracers[2] = tracers[1]
  /\ params.dimension_numbers =
       [lhs_contracting |-> <<0>>, rhs_contracting |-> <<0>>,
        lhs_batch |-> <<1>>, rhs_batch |-> <<1>>]
  /\ RhsCoordsOf(<<0, 1>>, <<>>) = <<0, 0>>
  /\ out.err = "none"
  /\ tracer.err = "none"

\* contracting pairs (0,1) and (1,0) of two rank-3 operands: the right
\* coordinate at the remaining axis 2 is not the enumerated one
DotContractingOrderWitness ==
  /\ DotDone
  /\ Len(tracers[2].treedefs) = 3
  /\ params.dimension_numbers.rhs_contracting = <<1, 0>>
  /\ params.dimension_numbers.lhs_batch = <<>>
  /\ out.err = "none"
  /\ \E inv \in Invocations : RhsCoordsOf(inv[1], inv[2])[3] # inv[2][1]

\* the axes of the left operand that are neither contracting nor batch
LhsRemaining ==
  Remaining(Len(tracers[1].treedefs),
            ToSet(params.dimension_numbers.lhs_contracting)
              \cup ToSet(params.dimension_numbers.lhs_batch))

\* the combinations of partition indices of the contracting axes
ContractingIndices ==
  LET lc == params.dimension_numbers.lhs_contracting
  IN ToSet(product([i \in 1..Len(lc) |-> Len(tracers[1].leafshapes[lc[i] + 1])]))

\* the coordinate of the left block for the output coordinate c and the
\* contracting indices k
LhsCoordsAt(c, k) ==
  LET dn == params.dimension_numbers
  IN [a \in 1..Len(tracers[1].treedefs) |->
        IF (a - 1) \in ToSet(dn.lhs_batch) THEN c[PositionOf(dn.lhs_batch, a - 1)]
        ELSE IF (a - 1) \in ToSet(dn.lhs_contracting)
        THEN k[PositionOf(dn.lhs_contracting, a - 1)]
        ELSE c[Len(dn.lhs_batch) + PositionOf(LhsRemaining, a - 1)]]

\* the coordinate of the right block for the output coordinate c and the
\* contracting indices k
RhsCoordsAt(c, k) ==
  LET dn == params.dimension_numbers
  IN [a \in 1..Len(tracers[2].treedefs) |->
        IF (a - 1) \in ToSet(dn.rhs_batch) THEN c[PositionOf(dn.rhs_batch, a - 1)]
        ELSE IF (a - 1) \in ToSet(dn.rhs_contracting)
        THEN k[PositionOf(dn.rhs_contracting, a - 1)]
        ELSE c[Len(dn.lhs_batch) + Len(LhsRemaining) + PositionOf(RhsRemaining, a - 1)]]

\* the kernel output for the output coordinate c and the contracting indices k
KernelOutputAt(c, k) ==
  LET dn == params.dimension_numbers
      l == LhsCoordsAt(c, k)
      r == RhsCoordsAt(c, k)
  IN dot_general(tracers[1].leaves[l], tracers[2].leaves[r],
                 _axes_for_leaf(tracers[1].leafshapes, l, dn.lhs_contracting),
                 _axes_for_leaf(tracers[2].leafshapes, r, dn.rhs_contracting),
                 _axes_for_leaf(tracers[1].leafshapes, l, dn.lhs_batch),
                 _axes_for_leaf(tracers[2].leafshapes, r, dn.rhs_batch))

\* the result axes are the batch axes of the left operand, its remaining
\* axes, then the remaining axes of the right operand
DotResultAxes ==
  LET dn == params.dimension_numbers
  IN /\ out.treedefs = Select(tracers[1].treedefs, dn.lhs_batch \o LhsRemaining)
                         \o Select(tracers[2].treedefs, RhsRemaining)
     /\ out.leafshapes = Select(tracers[1].leafshapes, dn.lhs_batch \o LhsRemaining)
                           \o Select(tracers[2].leafshapes, RhsRemaining)
     /\ DOMAIN out.leaves = ToSet(_iter_leaf_coords(out.treedefs))

\* the output coordinate c receives one kernel output per combination of
\* contracting partition indices and its block is their sum
DotSumAt(c) ==
  /\ Len(out.calls[c]) = Cardinality(ContractingIndices)
  /\ \E f \in [ContractingIndices -> 1..Len(out.calls[c])] :
       /\ \A k, m \in ContractingIndices : f[k] = f[m] => k = m
       /\ \A k \in ContractingIndices : out.calls[c][f[k]] = KernelOutputAt(c, k)
  /\ \A j \in 1..Len(out.calls[c]) : np_shape(out.calls[c][j]) = np_shape(out.leaves[c])
  /\ \A idx \in Indices(np_shape(out.leaves[c])) :
       out.leaves[c].at[idx] = SumSeq([j \in 1..Len(out.calls[c]) |-> out.calls[c][j].at[idx]])

\* y is the kernel output on the left block at coordinate l and some block of
\* the right operand
FromLeftBlock(y, l) ==
  LET dn == params.dimension_numbers
  IN \E r \in DOMAIN tracers[2].leaves :
       LET lc == _axes_for_leaf(tracers[1].leafshapes, l, dn.lhs_contracting)
           rc == _axes_for_leaf(tracers[2].leafshapes, r, dn.rhs_contracting)
           lb == _axes_for_leaf(tracers[1].leafshapes, l, dn.lhs_batch)
           rb == _axes_for_leaf(tracers[2].leafshapes, r, dn.rhs_batch)
       IN /\ dot_general_ok(tracers[1].leaves[l], tracers[2].leaves[r], lc, rc, lb, rb)
          /\ y = dot_general(tracers[1].leaves[l], tracers[2].leaves[r], lc, rc, lb, rb)

\* C27: the result axes are the batch axes, the left operand's remaining axes
\* and the right operand's remaining axes; every output coordinate receives
\* as many kernel outputs as the product of the contracting axes' partition
\* counts, one per combination of contracting partition indices, and its
\* block is their sum.
DotAccumulation ==
  DotDone /\ out.err = "none" =>
    /\ DotResultAxes
    /\ \A c \in DOMAIN out.leaves :
         /\ Len(out.calls[c]) = Cardinality(ContractingIndices)
         /\ \E f \in [ContractingIndices -> 1..Len(out.calls[c])] :
              /\ \A k, m \in ContractingIndices : f[k] = f[m] => k = m
              /\ \A k \in ContractingIndices :
                   FromLeftBlock(out.calls[c][f[k]], LhsCoordsAt(c, k))
         /\ \A idx \in Indices(np_shape(out.leaves[c])) :
              out.leaves[c].at[idx] =
                SumSeq([j \in 1..Len(out.calls[c]) |-> out.calls[c][j].at[idx]])

\* without batch axes and with contracting pairs declared by ascending right
\* axis, every output coordinate receives the kernel output of the paired
\* left and right blocks for each combination of contracting indices, and
\* its block is their sum
DotAccumulationAscending ==
  DotDone /\ out.err = "none" /\ AscendingNoBatch =>
    /\ DotResultAxes
    /\ \A c \in DOMAIN out.leaves : DotSumAt(c)

\* a batched matrix product of two rank-3 operands returned, and the two
\* kernel outputs summed at output coordinate (0,0,0) both come from the left
\* block of contracting index 0, none from that of contracting index 1
DotAccumulationWitness ==
  /\ DotDone
  /\ tracers[1] = Operand(<<TwinAxis, TwinAxis, TwinAxis>>, 1)
  /\ tracers[2] = tracers[1]
  /\ params.dimension_numbers =
       [lhs_contracting |-> <<2>>, rhs_contracting |-> <<1>>,
        lhs_batch |-> <<0>>, rhs_batch |-> <<0>>]
  /\ out.err = "none"
  /\ Len(out.calls[<<0, 0, 0>>]) = 2
  /\ \A j \in 1..2 :
       /\ FromLeftBlock(out.calls[<<0, 0, 0>>][j], <<0, 0, 0>>)
       /\ ~FromLeftBlock(out.calls[<<0, 0, 0>>][j], <<0, 0, 1>>)

(***************************************************************************)
(* Specification SpecDispatch: process_primitive of any primitive, with a  *)
(* registered rule or without, on one or two operands.                     *)
(***************************************************************************)
\* lax.sort_p and lax.select_p have no rule in tree_rules
UnregisteredPrims == {"sort", "select"}

DispatchPrims == DOMAIN tree_rules \cup UnregisteredPrims

DispatchOperands == {Operand(<<a>>, 1) : a \in PlainAxes \cup TreeAxes}

\* the parameters a primitive is bound with, for n operands of rank 1; the
\* set is empty when the primitive does not take n operands
DispatchParams(prim, n) ==
  CASE prim \in {"neg", "device_put"} ->
         IF n = 1 THEN {[prim |-> prim]} ELSE {}
    [] prim \in {"reduce_sum", "reduce_max"} ->
         IF n = 1 THEN {[prim |-> prim, axes |-> axes] : axes \in AxesTuples(1)} ELSE {}
    [] prim = "concatenate" -> {[prim |-> prim, dimension |-> 0]}
    [] prim = "dot_general" ->
         IF n = 2
         THEN {[prim |-> prim, dimension_numbers |-> dn] : dn \in ValidDimensionNumbers(1, 1)}
         ELSE {}
    [] OTHER -> {[prim |-> prim]}

InitDispatch ==
  /\ pc = "process_primitive"
  /\ tree = NoTree
  /\ tracers \in {<<a>> : a \in DispatchOperands}
                   \cup {<<a, b>> : a \in DispatchOperands, b \in DispatchOperands}
  /\ \E prim \in DispatchPrims : params \in DispatchParams(prim, Len(tracers))
  /\ out = NoOut
  /\ tracer = NoOut
  /\ restored = NoTree
  /\ lowered = NoOut

\* TreeTrace.process_primitive(primitive, tracers, params)
ProcessPrimitive ==
  /\ pc = "process_primitive"
  /\ out' = process_primitive(params.prim, tracers, params)
  /\ tracer' = wrap_result(out')
  /\ pc' = "done"
  /\ UNCHANGED <<tree, tracers, params, restored, lowered>>

NextDispatch == ProcessPrimitive

SpecDispatch == InitDispatch /\ [][NextDispatch]_vars

(***************************************************************************)
(* Properties of dispatch.                                                 *)
(***************************************************************************)
DispatchDone == pc = "done" /\ params.prim \in DispatchPrims

\* C11: for a primitive with a registered rule, process_primitive returns
\* what that rule returns on the operands' treedefs, leafshapes and leaves,
\* and wraps a returned result in a TreeTracer whose assertions are checked
\* anew; for a primitive without a rule it fails with UnsupportedPrimitive,
\* no kernel is called and no tracer is built.
Dispatch ==
  DispatchDone =>
    LET prim == params.prim
        tds == treedefs_of(tracers)
        lss == leafshapes_of(tracers)
        lvs == leaves_of(tracers)
    IN /\ prim \in {"neg", "device_put"} => out = vectorized_tree_rule(prim, tds, lss, lvs)
       /\ prim \in {"add", "sub", "max"} => out = naryop_tree_rule(prim, tds, lss, lvs)
       /\ prim \in {"reduce_sum", "reduce_max"} =>
            out = reducer_tree_rule(prim, binop_of(prim), tds, lss, lvs, params.axes)
       /\ prim = "concatenate" =>
            out = concatenate_tree_rule(tds, lss, lvs, params.dimension)
       /\ prim = "dot_general" =>
            out = dot_general_tree_rule(tds, lss, lvs, params.dimension_numbers)
       /\ prim \notin UnregisteredPrims /\ out.err = "none" =>
            /\ tracer.err = TreeTracer_err(out.treedefs, out.leafshapes, out.leaves)
            /\ TreeState(tracer.treedefs, tracer.leafshapes, tracer.leaves)
                 = TreeState(out.treedefs, out.leafshapes, out.leaves)
       /\ prim \notin UnregisteredPrims /\ out.err # "none" => tracer = NoOut
       /\ prim \in UnregisteredPrims =>
            /\ FailedWith("UnsupportedPrimitive")
            /\ out.calls = <<>>

\* sub was dispatched to the n-ary rule on two operands and its result
\* wrapped in a valid tracer
DispatchWitness ==
  /\ DispatchDone
  /\ params.prim = "sub"
  /\ Len(tracers) = 2
  /\ out.err = "none"
  /\ tracer.err = "none"
  /\ Cardinality(DOMAIN tracer.leaves) = 2

\* sort, which has no rule, was dispatched on a partitioned operand and failed
UnsupportedWitness ==
  /\ DispatchDone
  /\ params.prim = "sort"
  /\ Len(tracers[1].leafshapes[1]) = 2
  /\ FailedWith("UnsupportedPrimitive")

(***************************************************************************)
(* Specification SpecConvert: a pytree is converted on entry and restored  *)
(* on exit (tree_trace).                                                   *)
(***************************************************************************)

\* leaves of rank 0, 1 and 2, of both element types
ExampleLeaves ==
  { Scalar(1, "float"), Iota(<<1>>, "int", 2),
    Iota(<<1, 2>>, "float", 3), Iota(<<2>>, "int", 5) }

DictKeys == {"a", "b", "c"}

\* the key tuples of a dict literal: distinct keys in any insertion order
KeyTuples ==
  UNION {{ks \in [1..n -> DictKeys] : \A i, j \in 1..n : ks[i] = ks[j] => i = j}
         : n \in 1..MaxKids}

\* the containers whose children are drawn from pool
Containers(pool) ==
  UNION {{Dict(ks, kids) : ks \in {k \in KeyTuples : Len(k) = n}, kids \in [1..n -> pool]}
           \cup {List(kids) : kids \in [1..n -> pool]}
         : n \in 1..MaxKids}

Trees0 == {Leaf(x) : x \in ExampleLeaves}

\* two containers that occur as children of other containers
NestedKids ==
  { Dict(<<"d", "c">>, <<Leaf(Iota(<<2>>, "int", 5)), Leaf(Scalar(1, "float"))>>),
    List(<<Leaf(Iota(<<1, 2>>, "float", 3)), Leaf(Iota(<<1>>, "int", 2))>>) }

Trees == Trees0 \cup Containers(Trees0 \cup NestedKids)

InitConvert ==
  /\ pc = "convert"
  /\ tree \in Trees
  /\ tracers = <<>>
  /\ params = NoParams
  /\ out = NoOut
  /\ tracer = NoOut
  /\ restored = NoTree
  /\ lowered = NoOut

\* tree_trace, on entry: in_tracers = TreeTracer(trace, *convert_vectorized_tree(t))
Convert ==
  /\ pc = "convert"
  /\ tracers' = <<convert_vectorized_tree(tree)>>
  /\ pc' = "restore"
  /\ UNCHANGED <<tree, params, out, tracer, restored, lowered>>

\* tree_trace, on exit: restore_tree(t.treedefs, t.leaves)
Restore ==
  /\ pc = "restore"
  /\ restored' = restore_tree(tracers[1].treedefs, tracers[1].leaves)
  /\ pc' = "done"
  /\ UNCHANGED <<tree, tracers, params, out, tracer, lowered>>

NextConvert == Convert \/ Restore

SpecConvert == InitConvert /\ [][NextConvert]_vars

\* the values of an array, whatever its element type
Values(x) == <<x.shape, x.at>>

\* C1: restore_tree(convert_vectorized_tree(c)) has c's treedef and c's leaf
\* values in flatten order; convert yields one axis with c's treedef, the leaf
\* shapes in flatten order as segments, and blocks keyed (i,), i < leaf count.
RoundTrip ==
  pc = "done" =>
    LET st == tracers[1]
        xs == tree_flatten(tree)[1]
        ys == tree_flatten(restored)[1]
    IN /\ TreedefEq(tree_structure(restored), tree_structure(tree))
       /\ Len(ys) = Len(xs)
       /\ \A i \in 1..Len(xs) : Values(ys[i]) = Values(xs[i])
       /\ Len(st.treedefs) = 1
       /\ Len(st.leafshapes) = 1
       /\ TreedefEq(st.treedefs[1], tree_structure(tree))
       /\ st.leafshapes[1] = [i \in 1..Len(xs) |-> xs[i].shape]
       /\ DOMAIN st.leaves = {<<i>> : i \in 0..(Len(xs) - 1)}
       /\ \A i \in 1..Len(xs) : Values(st.leaves[<<i - 1>>]) = Values(xs[i])

\* a nested container with an unsorted dict and leaves of rank 0, 1 and 2 is
\* converted and restored
RoundTripWitness ==
  /\ pc = "done"
  /\ tree.node = "dict"
  /\ tree.keys = <<"b", "a">>
  /\ tree.kids[1].node = "list"
  /\ tree.kids[2].node = "leaf"
  /\ np_ndim(tree.kids[2].val) = 0
  /\ Len(tree_flatten(restored)[1]) = 3

(***************************************************************************)
(* Specification SpecRestore: restore_tree on values of rank 0 to 3, given *)
(* directly or made from a bare leaf by convert_leaf_array (TreeTrace.pure *)
(* and the round trip of test_convert_leaf_array).                         *)
(***************************************************************************)

\* descriptors of one, two and three leaves
RestoreDefs ==
  { TRIVIAL_TREEDEF, DictDef(<<"a", "b">>),
    tree_structure(List(<<Leaf(NoArray), Leaf(NoArray)>>)),
    tree_structure(List(<<Leaf(NoArray),
                          Dict(<<"d", "c">>, <<Leaf(NoArray), Leaf(NoArray)>>)>>)) }

RestoreRanks == 0..3

\* one block per coordinate, each holding a value of its own
RestoreLeaves(treedefs, seed) ==
  LET counts == [k \in 1..Len(treedefs) |-> num_leaves(treedefs[k])]
  IN [c \in ToSet(_iter_leaf_coords(treedefs)) |->
        Scalar(seed + Ravel(counts, c), "int")]

\* the (treedefs, leaves) handed to restore_tree; leafshapes play no part
RestoreValues ==
  UNION {{TreeState(tds, [k \in 1..n |-> <<>>], RestoreLeaves(tds, seed))
            : tds \in [1..n -> RestoreDefs], seed \in {1, 50}}
         : n \in RestoreRanks}

InitRestore ==
  /\ \/ /\ pc = "convert_leaf_array"
        /\ tree \in {Leaf(x) : x \in ExampleLeaves \cup {Iota(<<2, 1, 2>>, "int", 1)}}
        /\ tracers = <<>>
     \/ /\ pc = "restore"
        /\ tree = NoTree
        /\ tracers \in {<<v>> : v \in RestoreValues}
  /\ params = NoParams
  /\ out = NoOut
  /\ tracer = NoOut
  /\ restored = NoTree
  /\ lowered = NoOut

\* convert_leaf_array(leaf), of a bare leaf
ConvertLeaf ==
  /\ pc = "convert_leaf_array"
  /\ tracers' = <<convert_leaf_array(tree.val)>>
  /\ pc' = "restore"
  /\ UNCHANGED <<tree, params, out, tracer, restored, lowered>>

NextRestore == ConvertLeaf \/ Restore

SpecRestore == InitRestore /\ [][NextRestore]_vars

\* t has the container shape d, whatever sits at d's leaf positions
RECURSIVE ShapedBy(_, _)
ShapedBy(d, t) ==
  \/ d.node = "leaf"
  \/ /\ t.node = d.node
     /\ SortKeys(t.keys) = d.keys
     /\ Len(t.kids) = Len(d.kids)
     /\ \A k \in 1..Len(d.kids) : ShapedBy(d.kids[k], KidsInOrder(t)[k])

\* what sits at leaf position i (0-based, flatten order) of a container t
\* shaped by d
RECURSIVE AtLeafPosition(_, _, _)
AtLeafPosition(d, t, i) ==
  IF d.node = "leaf" THEN t
  ELSE LET k == CHOOSE j \in 1..Len(d.kids) :
                  /\ KidOffset(d.kids, j) <= i
                  /\ i < KidOffset(d.kids, j) + def_leaves(d.kids[j])
       IN AtLeafPosition(d.kids[k], KidsInOrder(t)[k], i - KidOffset(d.kids, k))

\* t is nested by treedefs from the outside in, and coords leads to block
RECURSIVE NestedAt(_, _, _, _)
NestedAt(t, treedefs, coords, block) ==
  IF treedefs = <<>> THEN t = Leaf(block)
  ELSE /\ ShapedBy(treedefs[1].def, t)
       /\ NestedAt(AtLeafPosition(treedefs[1].def, t, coords[1]),
                   Tail(treedefs), Tail(coords), block)

\* C12: restore_tree nests the containers with axis 0 outermost: the block at
\* (i_0, ..., i_{n-1}) sits at leaf position i_0 of a container shaped by
\* axis 0's descriptor, there at position i_1 of one shaped by axis 1's, and
\* so on; a bare leaf of rank n converts to n TRIVIAL axes, each the single
\* segment (size_k,), with one block at the all-zero coordinate, and restores
\* to the leaf itself.
RestoreNesting ==
  /\ pc \in {"restore", "done"} /\ tree # NoTree =>
       LET st == tracers[1]
           n == np_ndim(tree.val)
       IN /\ st.treedefs = [k \in 1..n |-> TRIVIAL_TREEDEF]
          /\ st.leafshapes = [k \in 1..n |-> << <<np_shape(tree.val)[k]>> >>]
          /\ DOMAIN st.leaves = {[k \in 1..n |-> 0]}
          /\ st.leaves[[k \in 1..n |-> 0]] = tree.val
  /\ pc = "done" =>
       /\ \A c \in DOMAIN tracers[1].leaves :
            NestedAt(restored, tracers[1].treedefs, c, tracers[1].leaves[c])
       /\ tree # NoTree => restored = tree

\* a rank-3 value whose three axes carry different descriptors is restored
RestoreNestingWitness ==
  /\ pc = "done"
  /\ tree = NoTree
  /\ Len(tracers[1].treedefs) = 3
  /\ num_leaves(tracers[1].treedefs[1]) = 2
  /\ num_leaves(tracers[1].treedefs[2]) = 3
  /\ tracers[1].treedefs[3].def.node = "dict"
  /\ restored.node = "dict" \/ restored.node = "list"

\* a bare leaf of rank 2 is converted and restored
RestoreLeafWitness ==
  /\ pc = "done"
  /\ tree # NoTree
  /\ np_ndim(tree.val) = 2
  /\ restored = tree

====
